---- MODULE Spec2Model ----
(***************************************************************************)
(* A model of the variable-order BDF integrator of diffsol                 *)
(* (src/src/ode_solver/bdf.rs) for one scalar state (nstates = 1).         *)
(*                                                                         *)
(* Numbers.  The solver's scalars are modelled as exact rationals          *)
(* <<n, d>> in lowest terms with d > 0; <<1, 0>> stands for +infinity      *)
(* (Eqn::T::INFINITY).  Times (t, h, tstop) are measured in units of       *)
(* 1e-32, so that MIN_TIMESTEP = 1e-32 is the rational 1.  Every other     *)
(* constant of the solver is dimensionless and keeps its value.            *)
(***************************************************************************)
EXTENDS Integers, Sequences, FiniteSets, TLC

\* ------------------------------------------------------------------------
\* Exact rational arithmetic
\* ------------------------------------------------------------------------
IAbs(n) == IF n < 0 THEN -n ELSE n

RECURSIVE GCD(_, _)
GCD(a, b) == IF b = 0 THEN a ELSE GCD(b, a % b)

\* the rational n/d (d # 0) in lowest terms with a positive denominator
Rat(n, d) ==
    LET g == GCD(IAbs(n), IAbs(d))
        s == IF d < 0 THEN -1 ELSE 1
    IN  <<s * (n \div g), s * (d \div g)>>

FromInt(n) == <<n, 1>>
Zero == <<0, 1>>
One == <<1, 1>>
INFINITY == <<1, 0>>

IsFinite(a) == a[2] # 0

RAdd(a, b) ==
    IF a[1] = 0 THEN b
    ELSE IF b[1] = 0 THEN a
    ELSE LET g == GCD(a[2], b[2])
         IN  Rat(a[1] * (b[2] \div g) + b[1] * (a[2] \div g), (a[2] \div g) * b[2])

RNeg(a) == <<-a[1], a[2]>>
RSub(a, b) == RAdd(a, RNeg(b))

\* product of finite rationals, cancelling across before multiplying
RMulFinite(a, b) ==
    LET g1 == GCD(IAbs(a[1]), b[2])
        g2 == GCD(IAbs(b[1]), a[2])
    IN  <<(a[1] \div g1) * (b[1] \div g2), (a[2] \div g2) * (b[2] \div g1)>>

\* product in the extended non-negative range used for step-size factors:
\* x * INFINITY = INFINITY for x > 0
RMul(a, b) ==
    IF a[1] = 0 \/ b[1] = 0 THEN Zero
    ELSE IF a[2] = 0 \/ b[2] = 0 THEN INFINITY
    ELSE RMulFinite(a, b)

RInv(a) == IF a[1] < 0 THEN <<-a[2], -a[1]>> ELSE <<a[2], a[1]>>
RDiv(a, b) == RMul(a, RInv(b))
RAbs(a) == <<IAbs(a[1]), a[2]>>

\* comparisons; one side may be INFINITY
RLt(a, b) == a[1] * b[2] < b[1] * a[2]
RLe(a, b) == a[1] * b[2] <= b[1] * a[2]
RGt(a, b) == RLt(b, a)
RGe(a, b) == RLe(b, a)

RECURSIVE RPowInt(_, _)
RPowInt(a, n) == IF n = 0 THEN One ELSE RMul(a, RPowInt(a, n - 1))

\* ------------------------------------------------------------------------
\* Constants of the solver
\* ------------------------------------------------------------------------
MAX_ORDER == 5
NEWTON_MAXITER == 4
MIN_FACTOR == Rat(1, 2)
MAX_FACTOR == Rat(21, 10)
MAX_THRESHOLD == Rat(2, 1)
MIN_THRESHOLD == Rat(9, 10)
\* 1e-32, in the model's time unit of 1e-32
MIN_TIMESTEP == Rat(1, 1)
\* the factor applied to h after a repeated convergence failure
CONVERGENCE_FAIL_FACTOR == Rat(3, 10)

\* number of columns of a difference matrix
NCols == MAX_ORDER + 3
Cols == 0 .. (NCols - 1)

\* ------------------------------------------------------------------------
\* Bdf::_compute_r and the matrix product r.mat_mul(&self.u)
\* ------------------------------------------------------------------------
RECURSIVE REntryAlongRow(_, _, _)
\* the recurrence along a row, r[i, j] = r[i, j-1] * (j - 1 - factor * i) / j
REntryAlongRow(i, j, factor) ==
    IF i = 0 THEN One
    ELSE IF j = 0 THEN Zero
    ELSE RDiv(RMul(REntryAlongRow(i, j - 1, factor),
                   RSub(FromInt(j - 1), RMul(factor, FromInt(i)))),
              FromInt(j))

RECURSIVE REntry(_, _, _)
\* r[(i, j)] = r[(i - 1, j)] * (i - 1 - factor * j) / i, row 0 all ones and
\* column 0 zero below it
REntry(i, j, factor) ==
    IF i = 0 THEN One
    ELSE IF j = 0 THEN Zero
    ELSE RDiv(RMul(REntry(i - 1, j, factor),
                   RSub(FromInt(i - 1), RMul(factor, FromInt(j)))),
              FromInt(i))

\* a matrix is [dim |-> n, e |-> [0..n-1 -> [0..n-1 -> rational]]]
_compute_r(order, factor) ==
    [dim |-> order + 1,
     e   |-> [i \in 0 .. order |-> [j \in 0 .. order |-> REntry(i, j, factor)]]]

RECURSIVE RSum(_, _, _)
\* sum of f[lo] .. f[hi]
RSum(f, lo, hi) == IF lo > hi THEN Zero ELSE RAdd(f[lo], RSum(f, lo + 1, hi))

\* nalgebra/faer panic when the inner dimensions differ
CanMatMul(a, b) == a.dim = b.dim

MatMul(a, b) ==
    [dim |-> a.dim,
     e   |-> [i \in 0 .. (a.dim - 1) |->
                [j \in 0 .. (a.dim - 1) |->
                    RSum([m \in 0 .. (a.dim - 1) |-> RMul(a.e[i][m], b.e[m][j])],
                         0, a.dim - 1)]]]

\* Bdf::_update_diff_for_step_size: columns 0..=order of diff_tmp receive
\* diff[:, 0..=order] * ru, then the two buffers are swapped
_update_diff_for_step_size(ru, diff, diff_tmp, order) ==
    LET tmp == [c \in Cols |->
                  IF c <= order
                  THEN RSum([i \in 0 .. order |-> RMul(diff[i], ru.e[i][c])], 0, order)
                  ELSE diff_tmp[c]]
    IN  [diff |-> tmp, diff_tmp |-> diff]

\* Bdf::_update_diff
_update_diff(order, d, diff) ==
    LET d1 == [diff EXCEPT ![order + 2] = RSub(d, diff[order + 1]),
                           ![order + 1] = d]
        \* suffix sums: column i becomes the sum of columns i .. order+1 of d1
    IN  [c \in Cols |-> IF c <= order THEN RSum(d1, c, order + 1) ELSE d1[c]]

\* Bdf::_predict_using_diff
_predict_using_diff(diff, order) == RSum(diff, 0, order)

\* Bdf::interpolate_from_diff
RECURSIVE TimeFactor(_, _, _, _)
\* the value of time_factor after iteration i of the loop
TimeFactor(i, t, t1, h) ==
    LET prev == IF i = 0 THEN One ELSE TimeFactor(i - 1, t, t1, h)
    IN  RMul(prev, RDiv(RSub(t, RSub(t1, RMul(h, FromInt(i)))),
                        RMul(h, FromInt(1 + i))))

interpolate_from_diff(t, diff, t1, h, order) ==
    RAdd(diff[0],
         RSum([i \in 0 .. (order - 1) |-> RMul(diff[i + 1], TimeFactor(i, t, t1, h))],
              0, order - 1))

\* ------------------------------------------------------------------------
\* Convergence: the stopping test of the Newton iteration
\* ------------------------------------------------------------------------
\* Convergence::new: tol = clamp(0.5 * rtol^0.5, 10 * EPSILON / rtol, 0.03);
\* 1/2000 is the value for the default rtol = 1e-6.  calls, open and last
\* record the calls since reset(): their number, whether each returned
\* Continue, and the norm and status of the latest
NewConvergence(tol, max_iter) ==
    [tol |-> tol, max_iter |-> max_iter, iter |-> 0, old_norm |-> <<>>,
     calls |-> 0, open |-> TRUE, last |-> <<>>]

DefaultConvergence == NewConvergence(Rat(1, 2000), 10)

\* Convergence::set_max_iter
set_max_iter(c, max_iter) == [c EXCEPT !.max_iter = max_iter]

\* Convergence::reset
reset(c) ==
    [c EXCEPT !.iter = 0, !.old_norm = <<>>, !.calls = 0, !.open = TRUE, !.last = <<>>]

\* a call that leaves the recorded norm as it was
NormNotRecorded(c, norm) == [c EXCEPT !.iter = @ + 1]

\* self.iter += 1; self.old_norm = Some(norm)
NormRecorded(c, norm) == [c EXCEPT !.iter = @ + 1, !.old_norm = <<norm>>]

\* a count that never ends the iteration
IterationNeverEnds(c) == [c |-> c, status |-> "Continue"]

\* the status after the norm was recorded
IterationCounted(c) ==
    [c |-> c,
     status |-> IF c.iter >= c.max_iter THEN "MaximumIterations" ELSE "Continue"]

\* the tests of a call that has an old_norm; max_iter - iter underflows
\* (a panic, also through i32::try_from(..).unwrap() where it wraps) when
\* iter > max_iter
RateTested(c, norm, rate) ==
    IF RGt(rate, One) THEN [c |-> c, status |-> "Diverged"]
    ELSE IF RLt(RMul(RDiv(rate, RSub(One, rate)), norm), c.tol)
    THEN [c |-> c, status |-> "Converged"]
    ELSE IF c.iter > c.max_iter THEN [c |-> c, status |-> "panic"]
    ELSE IF RGt(RMul(RDiv(RPowInt(rate, c.max_iter - c.iter), RSub(One, rate)), norm),
                c.tol)
    THEN [c |-> c, status |-> "Diverged"]
    ELSE IterationCounted(NormRecorded(c, norm))

\* Convergence::check_new_iteration, given norm = sqrt(dy.squared_norm(..));
\* a norm of Zero stands for every norm <= EPSILON
check_new_iteration(c, norm) ==
    IF norm = Zero THEN [c |-> c, status |-> "Converged"]
    ELSE IF c.old_norm # <<>> THEN RateTested(c, norm, RDiv(norm, c.old_norm[1]))
    ELSE IterationCounted(NormRecorded(c, norm))

\* ------------------------------------------------------------------------
\* OdeSolverSolution
\* ------------------------------------------------------------------------
\* OdeSolverSolution::default; sens_solution_points is <<>> for None and
\* <<v>> for Some(v), and pushes counts the calls of push so far
DefaultSolution ==
    [solution_points |-> <<>>, sens_solution_points |-> <<>>, negative_time |-> FALSE,
     pushes |-> 0]

\* ------------------------------------------------------------------------
\* Bounds of the model
\* ------------------------------------------------------------------------
\* accepted steps of a run whose corrections are all zero, without solver
\* failures and stop times
MaxSteps == 21
\* accepted steps of a run with a nonzero correction; the correction comes
\* before that many steps
KickSteps == 5
\* accepted steps of a run with solver failures or a stop time; the first
\* failure and the set_stop_time call come before that many steps
ShortSteps == 2
\* nonlinear-solver failures per run (statistics.number_of_nonlinear_solver_fails)
MaxNlsFails == 2
\* error-test failures per run (statistics.number_of_error_test_failures)
MaxErrFails == 2
\* steps per run whose correction d is not zero
MaxKicks == 1
\* set_stop_time calls per run
MaxStopCalls == 2
\* calls per run that return StepSizeTooSmall
MaxTooSmall == 1
\* passes through the retry loop within one step() call
MaxAttempts == 4
\* numerators and denominators a state may hold when a call starts
MaxMagnitude == 10000000

\* ------------------------------------------------------------------------
\* State
\* ------------------------------------------------------------------------
VARIABLES
    bdf,      \* the fields of the Bdf solver and of its BdfState
    problem,  \* the OdeSolverProblem: [has_root |-> eqn.root().is_some()]
    ret,      \* what the last call returned to its caller ("panic": it aborted)
    log,      \* what happened inside the last call
    kicks,    \* steps so far whose correction was not zero
    stops,    \* set_stop_time calls so far
    run,      \* accepted steps since h or the order last changed
    smalls,   \* calls so far that returned StepSizeTooSmall
    convergence,  \* the Convergence of the nonlinear solver
    solution  \* an OdeSolverSolution

vars == <<bdf, problem, ret, log, kicks, stops, run, smalls, convergence, solution>>

None == <<>>

\* the values of the external kernels' results the model draws from:
\* err^(-0.5/p) of an error norm err that is neither 0 nor infinite
Roots == {Rat(1, 2), One, Rat(2, 1)}
\* nonlinear_solver.convergence().niter() after a successful solve
NIters == {1, NEWTON_MAXITER}
\* corrections d = y_{n+1} - y0 a successful solve may leave in y_delta
Corrections == {Zero, One}
\* stop times a caller passes to set_stop_time
StopTimes == {FromInt(-3), FromInt(0), FromInt(2), FromInt(3)}
\* initial step sizes problem.h0 (forward and backward integration)
InitialSteps == {Rat(3, 2), Rat(-3, 2), FromInt(4)}

EmptyLog ==
    [op          |-> "new",
     committed   |-> FALSE,   \* step(): the attempt was committed
     solve_ok    |-> FALSE,   \* result of the last solve of the call
     error_norm  |-> INFINITY,\* what the last error_control() of the call returned
     order_ctl   |-> FALSE,   \* the order decision was evaluated
     run_at_ctl  |-> 0,       \* accepted steps at one h and order up to that decision
     small_by    |-> "none",  \* the step-size update that left |h| < MIN_TIMESTEP
     arg         |-> None,    \* set_stop_time(): its argument
     had_tstop   |-> FALSE]   \* set_stop_time(): a stop time was pending before

\* BdfState::initialise_diff_to_first_order
initialise_diff_to_first_order(b) ==
    [b EXCEPT !.order = 1,
              !.diff  = [@ EXCEPT ![0] = b.y, ![1] = RMul(b.dy, b.h)]]

\* the order-1 states a caller passes to Bdf::new: t = problem.t0 = 0,
\* h = problem.h0, y = 1, dy = 0, and the differences of that start
InitialState(h0) ==
    [t |-> Zero, h |-> h0, y |-> One, dy |-> Zero, order |-> 1,
     diff |-> [c \in Cols |-> IF c = 0 THEN One ELSE Zero]]

\* the states of order k a caller passes to Bdf::new, with the differences
\* d in columns 0..=k
HistoryState(k, d) ==
    [t |-> Zero, h |-> FromInt(6), y |-> d[0], dy |-> RDiv(d[1], FromInt(6)),
     order |-> k,
     diff |-> [c \in Cols |-> IF c <= k THEN d[c] ELSE Zero]]

\* Bdf::new
new(state) ==
    LET zeros == [c \in Cols |-> Zero]
    IN  [t |-> state.t, h |-> state.h, y |-> state.y, dy |-> state.dy,
         order |-> state.order, diff |-> state.diff,
         diff_tmp |-> zeros,
         u |-> _compute_r(state.order, One),
         n_equal_steps |-> 0,
         y_delta |-> Zero, y_predict |-> Zero, t_predict |-> Zero,
         tstop |-> None,
         is_state_modified |-> FALSE,
         attempts |-> <<>>,  \* what the loop of the last step() did, per pass
         number_of_steps |-> 0,
         number_of_nonlinear_solver_fails |-> 0,
         number_of_error_test_failures |-> 0]

Init ==
    /\ \E h0 \in InitialSteps : bdf = new(InitialState(h0))
    /\ problem \in [has_root : BOOLEAN]
    /\ ret = "Ok"
    /\ log = EmptyLog
    /\ kicks = 0
    /\ stops = 0
    /\ run = 0
    /\ smalls = 0
    /\ convergence = set_max_iter(DefaultConvergence, NEWTON_MAXITER)
    /\ solution = DefaultSolution

\* ------------------------------------------------------------------------
\* Step-size change
\* ------------------------------------------------------------------------
\* a step-size check that lets every step size pass
StepNeverTooSmall(new_h) == FALSE

\* _update_step_size: the check "abs(self.state.h) < MIN_TIMESTEP"
StepTooSmall(new_h) == RLt(RAbs(new_h), MIN_TIMESTEP)

\* _update_step_size from "self.state.h = new_h" on, with the rescaled
\* difference matrix and its scratch buffer in dd
StoreStepSize(b, new_h, dd) ==
    [b   |-> [b EXCEPT !.n_equal_steps = 0,
                       !.diff = dd.diff,
                       !.diff_tmp = dd.diff_tmp,
                       !.h = new_h],
     res |-> IF StepTooSmall(new_h) THEN "StepSizeTooSmall" ELSE "ok"]

\* _update_step_size from "let ru = r.mat_mul(&self.u)" on
Rescale(b, new_h, r) ==
    IF ~CanMatMul(r, b.u)
    THEN [b |-> [b EXCEPT !.n_equal_steps = 0], res |-> "panic"]
    ELSE StoreStepSize(b, new_h,
                       _update_diff_for_step_size(MatMul(r, b.u), b.diff, b.diff_tmp,
                                                  b.order))

\* Bdf::_update_step_size; res is the Result it returns ("panic": mat_mul
\* aborted on matrices of different dimensions)
_update_step_size(b, factor) ==
    Rescale(b, RMul(factor, b.h), _compute_r(b.order, factor))

\* Bdf::_predict_forward
_predict_forward(b) ==
    [b EXCEPT !.y_predict = _predict_using_diff(b.diff, b.order),
              !.t_predict = RAdd(b.t, b.h)]

\* ------------------------------------------------------------------------
\* Stop time
\* ------------------------------------------------------------------------
\* troundoff = 100 * EPSILON * (|t| + |h|) with EPSILON = 2^-52.  A stop
\* time of StopTimes and a time t or t + h of a run of at most ShortSteps
\* steps are equal or differ by far more than that, so on the values the
\* model compares
\*      x <= troundoff  is  x <= 0      and      x > troundoff  is  x > 0.
\* a comparison that takes no roundoff band around zero
LtRoundoff(x) == RLt(x, Zero)
LeRoundoff(x) == RLe(x, Zero)
GtRoundoff(x) == RGt(x, Zero)

\* handle_tstop after "_ = self._update_step_size(factor)" returned r: the
\* StepSizeTooSmall error is ignored
Clipped(r) ==
    [b |-> r.b,
     res |-> IF r.res = "panic" THEN "panic" ELSE "None",
     small |-> r.res = "StepSizeTooSmall"]

\* Bdf::handle_tstop; res is Ok(Some(TstopReached)), Ok(None), the error, or
\* "panic"; small tells whether the clipped h fell below MIN_TIMESTEP
handle_tstop(b, tstop) ==
    IF LeRoundoff(RAbs(RSub(b.t, tstop)))
    THEN [b |-> [b EXCEPT !.tstop = None], res |-> "TstopReached", small |-> FALSE]
    ELSE IF \/ (RGt(b.h, Zero) /\ GtRoundoff(RSub(b.t, tstop)))
            \/ (RLt(b.h, Zero) /\ GtRoundoff(RSub(tstop, b.t)))
    THEN [b |-> [b EXCEPT !.tstop = None], res |-> "StopTimeBeforeCurrentTime",
          small |-> FALSE]
    ELSE IF \/ (RGt(b.h, Zero) /\ GtRoundoff(RSub(RAdd(b.t, b.h), tstop)))
            \/ (RLt(b.h, Zero) /\ GtRoundoff(RSub(tstop, RAdd(b.t, b.h))))
    THEN Clipped(_update_step_size(b, RDiv(RSub(tstop, b.t), b.h)))
    ELSE [b |-> b, res |-> "None", small |-> FALSE]

\* a set_stop_time that leaves the refused stop time pending
StopTimeKept(r, tstop) ==
    IF r.res \in {"TstopReached", "StopTimeBeforeCurrentTime"}
    THEN [b |-> [r.b EXCEPT !.tstop = tstop],
          res |-> "StopTimeBeforeCurrentTime", small |-> r.small]
    ELSE IF r.res = "None"
    THEN [b |-> r.b, res |-> "Ok", small |-> r.small]
    ELSE r

\* set_stop_time after "self.handle_tstop(tstop)" returned r
StopTimeSet(r, tstop) ==
    IF r.res = "TstopReached"
    THEN [b |-> [r.b EXCEPT !.tstop = None],
          res |-> "StopTimeBeforeCurrentTime", small |-> r.small]
    ELSE IF r.res = "None"
    THEN [b |-> r.b, res |-> "Ok", small |-> r.small]
    ELSE r

\* Bdf::set_stop_time
set_stop_time(b, tstop) ==
    StopTimeSet(handle_tstop([b EXCEPT !.tstop = tstop], tstop), tstop)

\* a caller may go on using the solver after an error, not after a panic,
\* and gives up once MaxTooSmall calls returned StepSizeTooSmall
Alive == ret # "panic" /\ smalls < MaxTooSmall

SmallsAfter(res) == IF res = "StepSizeTooSmall" THEN smalls + 1 ELSE smalls

\* the run had a solver failure or a stop time
Disturbed(b, nstops) ==
    \/ b.number_of_nonlinear_solver_fails > 0
    \/ b.number_of_error_test_failures > 0
    \/ nstops > 0
\* a failure or a stop time may still come
MayDisturb(b) == b.number_of_steps < ShortSteps
\* a nonzero correction may still come
MayKick(b, k) == k < MaxKicks /\ b.number_of_steps < KickSteps
\* the accepted steps the run may take
StepLimit(b, k, nstops) ==
    IF Disturbed(b, nstops) THEN ShortSteps
    ELSE IF k > 0 THEN KickSteps
    ELSE MaxSteps

Magnitude(a) == IF IAbs(a[1]) > a[2] THEN IAbs(a[1]) ELSE a[2]
Small(b) ==
    /\ Magnitude(b.t) <= MaxMagnitude
    /\ Magnitude(b.h) <= MaxMagnitude
    /\ \A c \in Cols : Magnitude(b.diff[c]) <= MaxMagnitude
                       /\ Magnitude(b.diff_tmp[c]) <= MaxMagnitude

\* the run of accepted steps at one h and order ends when h or the order changes
RunAfter(b0, b1, r) == IF b1.h # b0.h \/ b1.order # b0.order THEN 0 ELSE r

\* the solver and the trace once set_stop_time(ts) returned r
StopTimeReturned(r, ts) ==
    /\ bdf' = r.b
    /\ ret' = r.res
    /\ log' = [EmptyLog EXCEPT !.op = "set_stop_time",
                               !.small_by = IF r.small THEN "tstop" ELSE "none",
                               !.arg = ts,
                               !.had_tstop = bdf.tstop # None]
    /\ run' = RunAfter(bdf, r.b, run)
    /\ smalls' = SmallsAfter(r.res)

SetStopTime ==
    /\ Alive
    /\ Small(bdf)
    /\ stops < MaxStopCalls
    /\ MayDisturb(bdf)
    /\ \E ts \in StopTimes : StopTimeReturned(set_stop_time(bdf, ts), ts)
    /\ stops' = stops + 1
    /\ UNCHANGED <<problem, kicks, convergence, solution>>

\* ------------------------------------------------------------------------
\* Error norms and step-size factors
\* ------------------------------------------------------------------------
\* error_norm.pow(-0.5 / p): 0 gives infinity, infinity gives 0, and a norm
\* drawn by Norms(_, p) gives the root it was built from
Pow(error_norm, p) ==
    IF error_norm = Zero THEN INFINITY
    ELSE IF error_norm = INFINITY THEN Zero
    ELSE CHOOSE f \in Roots : RMul(error_norm, RPowInt(f, 2 * p)) = One

\* the values v.squared_norm(y, atol, rtol) * error_const2[_] may take for a
\* vector v whose norm is then raised to -0.5 / p: zero exactly for v = 0
Norms(v, p) ==
    IF v = Zero THEN {Zero} ELSE {RInv(RPowInt(f, 2 * p)) : f \in Roots}

\* Bdf::error_control without output and sensitivity channels (ncontrib = 1);
\* wnorm is y_delta.squared_norm(..) * error_const2[order - 1]
error_control(wnorm) == RDiv(wnorm, FromInt(1))

\* Bdf::predict_error_control, likewise; wnorm is
\* diff.column(order + 1).squared_norm(..) * error_const2[order]
predict_error_control(wnorm) == RDiv(wnorm, FromInt(1))

\* safety = 0.9 * (2 * maxiter + 1) / (2 * maxiter + niter)
Safety(niter) == Rat(9 * (2 * NEWTON_MAXITER + 1), 10 * (2 * NEWTON_MAXITER + niter))

\* an error test that lets every attempt pass
ErrorTestSkipped(error_norm) == TRUE

\* the error test of step()
ErrorTestPasses(error_norm) == RLe(error_norm, One)

\* the index Iterator::max_by returns: the last of the maximal elements
MaxIndex(factors) ==
    IF RGe(factors[3], factors[1]) /\ RGe(factors[3], factors[2]) THEN 2
    ELSE IF RGe(factors[2], factors[1]) THEN 1
    ELSE 0

ClampMin(factor) == IF RLt(factor, MIN_FACTOR) THEN MIN_FACTOR ELSE factor
ClampMax(factor) == IF RGt(factor, MAX_FACTOR) THEN MAX_FACTOR ELSE factor

\* ------------------------------------------------------------------------
\* step(): the retry loop
\* ------------------------------------------------------------------------
LoopExit(kind, b, res, k, cause, sok, safety, error_norm) ==
    [kind |-> kind, b |-> b, ret |-> res, kicks |-> k, small_by |-> cause,
     solve_ok |-> sok, safety |-> safety, error_norm |-> error_norm]

\* what _update_step_size(factor)? leaves when step() goes on or returns
ShrinkExit(r, k, cause, sok, error_norm) ==
    LoopExit("error", r.b, r.res, k,
             IF r.res = "StepSizeTooSmall" THEN cause ELSE "none",
             sok, Zero, error_norm)

RECURSIVE LoopOutcomes(_, _, _, _)
\* a solver failure that is always retried with the same h and prediction
SolveFailedRetriesSame(b1, convergence_fail, k, n) ==
    LoopOutcomes([b1 EXCEPT !.attempts = Append(@, [what |-> "retried", h |-> b1.h])],
                 TRUE, k, n - 1)

\* a pass of the loop made with step size b.h ended in what: "retried" (solve
\* failed, same h and prediction again), "shrunk" (solve failed, h scaled by
\* CONVERGENCE_FAIL_FACTOR), "rejected" (error test failed) or "accepted"
Attempt(b, what) == [b EXCEPT !.attempts = Append(@, [what |-> what, h |-> b.h])]

\* the loop after the solve failed a second time and
\* _update_step_size(CONVERGENCE_FAIL_FACTOR) returned r
ConvergenceShrunk(r, k, n) ==
    IF r.res # "ok"
    THEN {ShrinkExit(r, k, "conv", FALSE, INFINITY)}
    ELSE LoopOutcomes(_predict_forward(r.b), TRUE, k, n - 1)

\* solve_result.is_err(): the nonlinear solve or a sensitivity solve failed
SolveFailed(b1, convergence_fail, k, n) ==
    IF convergence_fail
    THEN ConvergenceShrunk(
             _update_step_size(Attempt(b1, "shrunk"), CONVERGENCE_FAIL_FACTOR), k, n)
    ELSE LoopOutcomes(Attempt(b1, "retried"), TRUE, k, n - 1)

\* the loop after the error test failed and _update_step_size(factor)
\* returned r
ErrorShrunk(r, convergence_fail, k, n, error_norm) ==
    IF r.res # "ok"
    THEN {ShrinkExit(r, k, "err", TRUE, error_norm)}
    ELSE LoopOutcomes([_predict_forward(r.b) EXCEPT
                           !.number_of_error_test_failures = @ + 1],
                      convergence_fail, k, n - 1)

\* the solve succeeded with correction b1.y_delta, error norm error_norm and
\* niter iterations
Solved(b1, convergence_fail, k, n, error_norm, niter) ==
    IF ErrorTestPasses(error_norm)
    THEN IF b1.y_delta # Zero /\ ~MayKick(b1, k) THEN {}
         ELSE {LoopExit("accepted", Attempt(b1, "accepted"), "ok",
                        IF b1.y_delta # Zero THEN k + 1 ELSE k,
                        "none", TRUE, Safety(niter), error_norm)}
    ELSE IF b1.number_of_error_test_failures >= MaxErrFails \/ ~MayDisturb(b1)
    THEN {}
    ELSE ErrorShrunk(
             _update_step_size(
                 Attempt(b1, "rejected"),
                 ClampMin(RMul(Safety(niter), Pow(error_norm, b1.order + 1)))),
             convergence_fail, k, n, error_norm)

\* the ways the loop of step() can end within n more passes, from solver
\* fields b with the local flag convergence_fail and k kicks so far
LoopOutcomes(b, convergence_fail, k, n) ==
    IF n = 0 THEN {}
    ELSE
    (IF b.number_of_nonlinear_solver_fails >= MaxNlsFails \/ ~MayDisturb(b) THEN {}
     ELSE SolveFailed([b EXCEPT !.y_delta = b.y_predict,
                                !.number_of_nonlinear_solver_fails = @ + 1],
                      convergence_fail, k, n))
    \cup
    UNION {UNION {UNION {Solved([b EXCEPT !.y_delta = d], convergence_fail, k, n,
                                error_control(wnorm), niter) : niter \in NIters} :
                     wnorm \in Norms(d, b.order + 1)} :
              d \in Corrections}

\* ------------------------------------------------------------------------
\* step(): taking the accepted step, order and step-size control
\* ------------------------------------------------------------------------
\* a step() that leaves the history and the modified flag as they are
HistoryKept(b) == b

\* Bdf::initialise_to_first_order
initialise_to_first_order(b) ==
    [initialise_diff_to_first_order(b) EXCEPT !.n_equal_steps = 0,
                                              !.u = _compute_r(1, One),
                                              !.is_state_modified = FALSE]

\* Bdf::update_differences_and_integrate_out without output and sensitivities
update_differences_and_integrate_out(b) ==
    [b EXCEPT !.diff = _update_diff(b.order, b.y_delta, b.diff)]

\* the value step() stores in state.y when it takes the accepted step
AcceptedY(b) == b.y_predict

\* the value step() stores in state.dy when it takes the accepted step
AcceptedDy(b) == RDiv(b.diff[1], b.h)

\* step(): "take the accepted step" up to the increment of n_equal_steps
StoreAcceptedStep(b1) ==
    [b1 EXCEPT !.y = AcceptedY(b1),
               !.t = b1.t_predict,
               !.dy = AcceptedDy(b1),
               !.number_of_steps = @ + 1,
               !.n_equal_steps = @ + 1]

\* step(): update_differences_and_integrate_out(), then the above
TakeAcceptedStep(b) == StoreAcceptedStep(update_differences_and_integrate_out(b))

\* an order decision taken after every accepted step
OrderDecisionAlways(b) == TRUE

\* step(): the guard of the order decision
OrderDecisionDue(b) == b.n_equal_steps > b.order

NewOrder(old_order, max_index) ==
    CASE max_index = 0 -> old_order - 1
      [] max_index = 1 -> old_order
      [] max_index = 2 -> old_order + 1

\* step(): must h be updated after the order decision
StepSizeUpdateDue(factor, max_index) ==
    \/ RGe(factor, MAX_THRESHOLD)
    \/ RLt(factor, MIN_THRESHOLD)
    \/ max_index = 0
    \/ max_index = 2

\* step(): the order decision from "if max_index == 0" on, with the order
\* the state moves to and the clamped factor
ApplyOrder(b, max_index, new_order, factor) ==
    IF StepSizeUpdateDue(factor, max_index)
    THEN _update_step_size(
             [b EXCEPT !.order = new_order,
                       !.u = IF max_index # 1 THEN _compute_r(new_order, One) ELSE @],
             factor)
    ELSE [b |-> [b EXCEPT !.order = new_order,
                          !.u = IF max_index # 1 THEN _compute_r(new_order, One) ELSE @],
          res |-> "ok"]

\* step(): the order decision from "let max_index = ..." on
ChooseOrder(b, safety, factors, max_index) ==
    ApplyOrder(b, max_index, NewOrder(b.order, max_index),
               ClampMin(ClampMax(RMul(safety, factors[max_index + 1]))))

\* step(): the block under "if self.n_equal_steps > self.state.order", with
\* the norms em, ep that predict_error_control returned (infinity where the
\* code does not call it)
OrderControl(b, safety, error_norm, em, ep) ==
    ChooseOrder(b, safety,
                <<Pow(em, b.order), Pow(error_norm, b.order + 1), Pow(ep, b.order + 2)>>,
                MaxIndex(<<Pow(em, b.order), Pow(error_norm, b.order + 1),
                           Pow(ep, b.order + 2)>>))

\* the inputs of the order decision: the norms of columns order and order + 2
LowerNorms(b) ==
    IF b.order > 1
    THEN {predict_error_control(w) : w \in Norms(b.diff[b.order], b.order)}
    ELSE {INFINITY}
\* the norm of column order + 2 taken at every order
UpperNormsUnguarded(b) ==
    {predict_error_control(w) : w \in Norms(b.diff[b.order + 2], b.order + 2)}
UpperNorms(b) ==
    IF b.order < MAX_ORDER
    THEN {predict_error_control(w) : w \in Norms(b.diff[b.order + 2], b.order + 2)}
    ELSE {INFINITY}

\* step() after "self.handle_tstop(tstop)" returned r: unwrap() aborts on an
\* error
StopHandled(r) ==
    IF r.res \in {"StopTimeBeforeCurrentTime", "panic"}
    THEN [b |-> r.b, res |-> "panic", small |-> r.small]
    ELSE IF r.res = "TstopReached"
    THEN r
    ELSE [b |-> r.b, res |-> "InternalTimestep", small |-> r.small]

\* step(): the root check and the stop time, after the step was taken
RootAndStop(b, root_found) ==
    IF root_found
    THEN [b |-> b, res |-> "RootFound", small |-> FALSE]
    ELSE IF b.tstop # None
    THEN StopHandled(handle_tstop(b, b.tstop))
    ELSE [b |-> b, res |-> "InternalTimestep", small |-> FALSE]

StepLog(o, committed, ctl, run_at_ctl, small_by) ==
    [op |-> "step", committed |-> committed, solve_ok |-> o.solve_ok,
     error_norm |-> o.error_norm, order_ctl |-> ctl, run_at_ctl |-> run_at_ctl,
     small_by |-> small_by, arg |-> None, had_tstop |-> FALSE]

\* what step() returns after the root check and the stop time left r, from
\* the solver fields cb that order control left
StepReturned(o, cb, r, run_c, due, run1) ==
    [b |-> r.b, ret |-> r.res, kicks |-> o.kicks,
     run |-> RunAfter(cb, r.b, run_c),
     log |-> StepLog(o, TRUE, due, IF due THEN run1 ELSE 0,
                     IF r.small THEN "tstop" ELSE "none")]

\* the ways step() can end once order control left c
Finish(o, b1, run1, due, c) ==
    IF c.res # "ok"
    THEN {[b |-> c.b, ret |-> c.res, kicks |-> o.kicks,
           run |-> RunAfter(b1, c.b, run1),
           log |-> StepLog(o, TRUE, due, IF due THEN run1 ELSE 0,
                           IF c.res = "StepSizeTooSmall" THEN "ctl" ELSE "none")]}
    ELSE {StepReturned(o, c.b, RootAndStop(c.b, root_found),
                       RunAfter(b1, c.b, run1), due, run1) :
              root_found \in IF problem.has_root THEN BOOLEAN ELSE {FALSE}}

\* the ways order control can leave the solver after the step b1 was taken
Controlled(o, b1, due) ==
    IF due
    THEN {OrderControl(b1, o.safety, o.error_norm, em, ep) :
              em \in LowerNorms(b1), ep \in UpperNorms(b1)}
    ELSE {[b |-> b1, res |-> "ok"]}

\* the ways step() can end once the accepted step b1 was taken
TakenOutcomes(o, b1, run1, due) ==
    UNION {Finish(o, b1, run1, due, c) : c \in Controlled(o, b1, due)}

\* the step was taken: is an order decision due
Taken(o, b1, run1) == TakenOutcomes(o, b1, run1, OrderDecisionDue(b1))

\* the ways step() can end once the loop accepted the attempt o
AcceptedOutcomes(o, b0, run0) ==
    Taken(o, TakeAcceptedStep(o.b), (IF o.b.h # b0.h THEN 0 ELSE run0) + 1)

\* step() after the block under "if self.is_state_modified" left restop
Started(b0, k0, run0, restop, run00) ==
    IF restop.res # "Ok"
    THEN {[b |-> restop.b, ret |-> restop.res, kicks |-> k0, run |-> run00,
           log |-> [EmptyLog EXCEPT !.op = "step"]]}
    ELSE UNION {
           IF o.kind = "accepted"
           THEN AcceptedOutcomes(o, restop.b, run00)
           ELSE {[b |-> o.b, ret |-> o.ret, kicks |-> o.kicks,
                  run |-> RunAfter(b0, o.b, run0),
                  log |-> StepLog(o, FALSE, FALSE, 0, o.small_by)]} :
           o \in LoopOutcomes(_predict_forward([restop.b EXCEPT !.attempts = <<>>]),
                               FALSE, k0, MaxAttempts)}

\* step(): the block under "if self.is_state_modified", from the
\* reinitialised fields
Restopped(reinit) ==
    IF reinit.tstop # None
    THEN set_stop_time(reinit, reinit.tstop)
    ELSE [b |-> reinit, res |-> "Ok", small |-> FALSE]

\* step() up to the loop
Restart(b0) ==
    IF b0.is_state_modified
    THEN Restopped(initialise_to_first_order(b0))
    ELSE [b |-> b0, res |-> "Ok", small |-> FALSE]

StartedFrom(b0, k0, run0, restop) ==
    Started(b0, k0, run0, restop, RunAfter(b0, restop.b, run0))

\* the ways a call of step() can end
StepOutcomes(b0, k0, run0) == StartedFrom(b0, k0, run0, Restart(b0))

Step ==
    /\ Alive
    /\ Small(bdf)
    /\ bdf.number_of_steps < StepLimit(bdf, kicks, stops)
    /\ \E o \in StepOutcomes(bdf, kicks, run) :
         /\ bdf' = o.b
         /\ ret' = o.ret
         /\ log' = o.log
         /\ kicks' = o.kicks
         /\ run' = o.run
         /\ smalls' = SmallsAfter(o.ret)
    /\ UNCHANGED <<problem, stops, convergence, solution>>

Next == Step \/ SetStopTime

Spec == Init /\ [][Next]_vars

\* ------------------------------------------------------------------------
\* A solver started with a step size far above MIN_TIMESTEP
\* ------------------------------------------------------------------------
LargeInitialSteps == {FromInt(8), FromInt(-8)}

InitRetry ==
    /\ \E h0 \in LargeInitialSteps : bdf = new(InitialState(h0))
    /\ problem \in [has_root : BOOLEAN]
    /\ ret = "Ok"
    /\ log = EmptyLog
    /\ kicks = 0
    /\ stops = 0
    /\ run = 0
    /\ smalls = 0
    /\ convergence = set_max_iter(DefaultConvergence, NEWTON_MAXITER)
    /\ solution = DefaultSolution

SpecRetry == InitRetry /\ [][Next]_vars

\* ------------------------------------------------------------------------
\* The error norm over all channels
\* ------------------------------------------------------------------------
\* Bdf::new: kappa[i], from Table 1 of [1]
kappa(i) ==
    CASE i = 1 -> Rat(-1850, 10000)
      [] i = 2 -> Rat(-1, 9)
      [] i = 3 -> Rat(-823, 10000)
      [] i = 4 -> Rat(-415, 10000)
      [] OTHER -> Zero

RECURSIVE gamma(_)
\* Bdf::new: gamma[i] = gamma[i - 1] + 1 / i
gamma(i) == IF i = 0 THEN Zero ELSE RAdd(gamma(i - 1), Rat(1, i))

\* Bdf::new: error_const2[0] = 1 and, for i in 1..=max_order,
\* error_const2[i] = (kappa[i] * gamma[i] + 1 / (i + 1))^2
error_const2(i) ==
    IF i = 0 THEN One
    ELSE RPowInt(RAdd(RMul(kappa(i), gamma(i)), Rat(1, i + 1)), 2)

\* sum of the weighted squared norms n[1] .. n[Len(n)], each times c
RECURSIVE WeightedSum(_, _)
WeightedSum(n, c) ==
    IF n = <<>> THEN Zero ELSE RAdd(RMul(n[1], c), WeightedSum(Tail(n), c))

\* Bdf::error_control at order order over the channels ch: ch.y is
\* y_delta.squared_norm(..), ch.out that of g_delta (None unless
\* output_in_error_control), ch.sens those of s_deltas and ch.sens_out those
\* of sg_deltas (empty unless included in the error control)
error_control_channels(order, ch) ==
    RDiv(RAdd(RAdd(RMul(ch.y, error_const2(order - 1)),
                   IF ch.out # None THEN RMul(ch.out, error_const2(order)) ELSE Zero),
              RAdd(WeightedSum(ch.sens, error_const2(order)),
                   WeightedSum(ch.sens_out, error_const2(order)))),
         FromInt(1 + (IF ch.out # None THEN 1 ELSE 0) + Len(ch.sens) + Len(ch.sens_out)))

\* the weighted squared norms squared_norm() returns for the channels
ChannelNorms == {Zero, One, FromInt(4)}
Channels ==
    [y : ChannelNorms,
     out : {None} \cup ChannelNorms,
     sens : {<<>>} \cup {<<a>> : a \in ChannelNorms}
                   \cup {<<a, b>> : a, b \in ChannelNorms},
     sens_out : {<<>>, <<One>>}]

\* the orders at which error_control() is called here: at orders 3 and 4
\* the call or the formula it is compared with takes error_const2[3] =
\* (5947/60000)^2, whose denominator exceeds the integers of the checker
ErrorControlOrders == {1, 2, MAX_ORDER}

\* a solver of one of these orders, as Bdf::new leaves it
InitErrorControl ==
    /\ \E k \in ErrorControlOrders :
         bdf = new(HistoryState(k, [c \in 0 .. MAX_ORDER |-> Zero]))
    /\ problem = [has_root |-> FALSE]
    /\ ret = "Ok"
    /\ log = EmptyLog
    /\ kicks = 0
    /\ stops = 0
    /\ run = 0
    /\ smalls = 0
    /\ convergence = set_max_iter(DefaultConvergence, NEWTON_MAXITER)
    /\ solution = DefaultSolution

\* one call of error_control() on the channel norms ch
ErrorControl ==
    /\ log = EmptyLog
    /\ \E ch \in Channels :
         log' = [EmptyLog EXCEPT !.op = "error_control",
                                 !.arg = ch,
                                 !.error_norm = error_control_channels(bdf.order, ch)]
    /\ UNCHANGED <<bdf, problem, ret, kicks, stops, run, smalls, convergence, solution>>

NextErrorControl == ErrorControl

SpecErrorControl == InitErrorControl /\ [][NextErrorControl]_vars

\* ------------------------------------------------------------------------
\* OdeSolverProblem: the shared equations and their parameters
\* ------------------------------------------------------------------------
\* the owners an Rc may have
MaxOwners == 2

\* parameter vectors
Params == {0, 1, 2}

\* the operators of OdeSolverEquations
Operators == {"rhs", "mass", "root"}

\* a problem as the builder leaves it: the Rc of the equations (eqn) and of
\* each operator has one owner (0 owners: the optional operator is absent),
\* and the equations and every operator hold the parameters 0
FreshProblem(has_mass, has_root) ==
    [owners |-> [eqn |-> 1, rhs |-> 1,
                 mass |-> IF has_mass THEN 1 ELSE 0,
                 root |-> IF has_root THEN 1 ELSE 0],
     p      |-> [eqn |-> 0, rhs |-> 0,
                 mass |-> IF has_mass THEN 0 ELSE None,
                 root |-> IF has_root THEN 0 ELSE None]]

\* Rc::get_mut gives Some exactly when the Rc has one owner
get_mut(pr, rc) == pr.owners[rc] = 1

\* OdeSolverEquations::set_params from "if let Some(r) = self.root.as_mut()"
\* on, where pr has the parameters stored so far
SetRootParams(pr, q) ==
    IF pr.owners.root = 0 THEN [pr |-> pr, res |-> "Ok"]
    ELSE IF ~get_mut(pr, "root") THEN [pr |-> pr, res |-> "panic"]
    ELSE [pr |-> [pr EXCEPT !.p.root = q], res |-> "Ok"]

\* OdeSolverEquations::set_params from "if let Some(m) = self.mass.as_mut()" on
SetMassParams(pr, q) ==
    IF pr.owners.mass = 0 THEN SetRootParams(pr, q)
    ELSE IF ~get_mut(pr, "mass") THEN [pr |-> pr, res |-> "panic"]
    ELSE SetRootParams([pr EXCEPT !.p.mass = q], q)

\* OdeSolverEquations::set_params from "Rc::<Rhs>::get_mut(&mut self.rhs)" on
SetRhsParams(pr, q) ==
    IF ~get_mut(pr, "rhs") THEN [pr |-> pr, res |-> "panic"]
    ELSE SetMassParams([pr EXCEPT !.p.rhs = q], q)

\* OdeSolverEquations::set_params; unwrap() aborts on None
equations_set_params(pr, q) == SetRhsParams([pr EXCEPT !.p.eqn = q], q)

\* OdeSolverProblem::set_params
set_params(pr, q) ==
    IF ~get_mut(pr, "eqn")
    THEN [pr |-> pr, res |-> "FailedToGetMutableReference"]
    ELSE equations_set_params(pr, q)

InitProblem ==
    /\ \E has_mass, has_root \in BOOLEAN : problem = FreshProblem(has_mass, has_root)
    /\ bdf = new(InitialState(One))
    /\ ret = "Ok"
    /\ log = EmptyLog
    /\ kicks = 0
    /\ stops = 0
    /\ run = 0
    /\ smalls = 0
    /\ convergence = set_max_iter(DefaultConvergence, NEWTON_MAXITER)
    /\ solution = DefaultSolution

\* the caller may go on after an error value, not after an abort
ProblemAlive == ret # "panic"

\* OdeSolverProblem::clone, or dropping a clone: one more or one fewer owner
\* of the Rc of the equations
CloneProblem ==
    /\ ProblemAlive
    /\ problem.owners.eqn < MaxOwners
    /\ problem' = [problem EXCEPT !.owners.eqn = @ + 1]
    /\ ret' = "Ok"
    /\ log' = [EmptyLog EXCEPT !.op = "clone"]
    /\ UNCHANGED <<bdf, kicks, stops, run, smalls, convergence, solution>>

DropProblemClone ==
    /\ ProblemAlive
    /\ problem.owners.eqn > 1
    /\ problem' = [problem EXCEPT !.owners.eqn = @ - 1]
    /\ ret' = "Ok"
    /\ log' = [EmptyLog EXCEPT !.op = "drop"]
    /\ UNCHANGED <<bdf, kicks, stops, run, smalls, convergence, solution>>

\* eqn.rhs().clone(), eqn.mass().cloned(), eqn.root().cloned(): one more
\* owner of the Rc of an operator
CloneOperator ==
    /\ ProblemAlive
    /\ \E o \in Operators :
         /\ problem.owners[o] >= 1
         /\ problem.owners[o] < MaxOwners
         /\ problem' = [problem EXCEPT !.owners[o] = @ + 1]
         /\ log' = [EmptyLog EXCEPT !.op = "clone_operator", !.arg = o]
    /\ ret' = "Ok"
    /\ UNCHANGED <<bdf, kicks, stops, run, smalls, convergence, solution>>

DropOperatorClone ==
    /\ ProblemAlive
    /\ \E o \in Operators :
         /\ problem.owners[o] > 1
         /\ problem' = [problem EXCEPT !.owners[o] = @ - 1]
         /\ log' = [EmptyLog EXCEPT !.op = "drop_operator", !.arg = o]
    /\ ret' = "Ok"
    /\ UNCHANGED <<bdf, kicks, stops, run, smalls, convergence, solution>>

\* the problem and the trace once set_params(q) returned r
ParamsSet(r, q) ==
    /\ problem' = r.pr
    /\ ret' = r.res
    /\ log' = [EmptyLog EXCEPT !.op = "set_params", !.arg = q]

SetParams ==
    /\ ProblemAlive
    /\ \E q \in Params : ParamsSet(set_params(problem, q), q)
    /\ UNCHANGED <<bdf, kicks, stops, run, smalls, convergence, solution>>

NextProblem ==
    \/ CloneProblem
    \/ DropProblemClone
    \/ CloneOperator
    \/ DropOperatorClone
    \/ SetParams

SpecProblem == InitProblem /\ [][NextProblem]_vars

\* ------------------------------------------------------------------------
\* OdeSolverProblem::new
\* ------------------------------------------------------------------------
\* tolerance scalars, in units of the default 1e-6
Tolerances == {-1, 0, 1}
\* tolerance vectors of up to two entries
ToleranceVectors ==
    {<<>>} \cup {<<a>> : a \in Tolerances} \cup {<<a, b>> : a, b \in Tolerances}
\* the optional tolerances: <<>> is Option::None, <<x>> is Some(x)
NoTolerance == <<>>
OptionalTolerances == {NoTolerance, <<0>>, <<1>>}
OptionalToleranceVectors == {NoTolerance, << <<1>> >>, << <<0, 1>> >>}
\* the caller's variable before a problem was built
NoProblem == [built |-> FALSE]

\* OdeSolverProblem::new with equations of nstates states: every argument
\* is stored as given
new_problem(nstates, rtol, atol, sens, out, param) ==
    [res |-> "Ok",
     problem |-> [built |-> TRUE,
                  nstates |-> nstates, rtol |-> rtol, atol |-> atol,
                  sens_rtol |-> sens.rtol, sens_atol |-> sens.atol,
                  out_rtol |-> out.rtol, out_atol |-> out.atol,
                  param_rtol |-> param.rtol, param_atol |-> param.atol]]

\* no problem has been built
InitNewProblem ==
    /\ problem = NoProblem
    /\ bdf = new(InitialState(One))
    /\ ret = "Ok"
    /\ log = EmptyLog
    /\ kicks = 0
    /\ stops = 0
    /\ run = 0
    /\ smalls = 0
    /\ convergence = set_max_iter(DefaultConvergence, NEWTON_MAXITER)
    /\ solution = DefaultSolution

\* the caller's variable and the trace once OdeSolverProblem::new returned r
ProblemBuilt(r) ==
    /\ problem' = IF r.res = "Ok" THEN r.problem ELSE NoProblem
    /\ ret' = r.res
    /\ log' = [EmptyLog EXCEPT !.op = "new_problem"]

\* one call of OdeSolverProblem::new; the optional tolerances are given for
\* one channel at most
NewProblem ==
    /\ ~problem.built
    /\ \E nstates \in 1 .. 2, rtol \in Tolerances, atol \in ToleranceVectors,
          channel \in {"none", "sens", "out", "param"},
          ortol \in OptionalTolerances, oatol \in OptionalToleranceVectors :
         ProblemBuilt(new_problem(
             nstates, rtol, atol,
             IF channel = "sens" THEN [rtol |-> ortol, atol |-> oatol]
                                 ELSE [rtol |-> NoTolerance, atol |-> NoTolerance],
             IF channel = "out" THEN [rtol |-> ortol, atol |-> oatol]
                                ELSE [rtol |-> NoTolerance, atol |-> NoTolerance],
             IF channel = "param" THEN [rtol |-> ortol, atol |-> oatol]
                                  ELSE [rtol |-> NoTolerance, atol |-> NoTolerance]))
    /\ UNCHANGED <<bdf, kicks, stops, run, smalls, convergence, solution>>

NextNewProblem == NewProblem

SpecNewProblem == InitNewProblem /\ [][NextNewProblem]_vars

\* ------------------------------------------------------------------------
\* Sparse matrices in compressed column form (CSC)
\* ------------------------------------------------------------------------
\* rows and columns of the patterns and matrices
PatternDim == 2

\* the minimum of a nonempty set of numbers
SetMin(S) == CHOOSE x \in S : \A z \in S : x <= z

RECURSIVE Sorted(_)
\* the elements of a set of numbers in increasing order
Sorted(S) == IF S = {} THEN <<>> ELSE <<SetMin(S)>> \o Sorted(S \ {SetMin(S)})

RECURSIVE Orders(_)
\* the orders in which a HashSet may hand out its elements
Orders(S) ==
    IF S = {} THEN {<<>>}
    ELSE UNION {{<<x>> \o rest : rest \in Orders(S \ {x})} : x \in S}

\* the elements of a sequence
Range(q) == {q[i] : i \in 1 .. Len(q)}

\* SparsityPattern::lane(j): the minor indices of major index j (from 0)
lane(pat, j) ==
    SubSeq(pat.minor_indices, pat.major_offsets[j + 1] + 1, pat.major_offsets[j + 2])

\* MatrixSparsity::indices for a valid pattern: its (row, column) entries
indices(pat) ==
    UNION {{<<i, j>> : i \in Range(lane(pat, j))} : j \in 0 .. (pat.major_dim - 1)}

\* the checks of SparsityPattern::try_from_offsets_and_indices
ValidPattern(major_dim, minor_dim, major_offsets, minor_indices) ==
    /\ Len(major_offsets) = major_dim + 1
    /\ major_offsets[1] = 0
    /\ major_offsets[major_dim + 1] = Len(minor_indices)
    /\ \A j \in 1 .. major_dim : major_offsets[j] <= major_offsets[j + 1]
    /\ \A k \in 1 .. Len(minor_indices) : minor_indices[k] \in 0 .. (minor_dim - 1)
    /\ \A j \in 1 .. major_dim :
         \A k \in (major_offsets[j] + 1) .. (major_offsets[j + 1] - 1) :
             minor_indices[k] < minor_indices[k + 1]

\* SparsityPattern::try_from_offsets_and_indices(..).map_err(..)
try_from_offsets_and_indices(major_dim, minor_dim, major_offsets, minor_indices) ==
    IF ValidPattern(major_dim, minor_dim, major_offsets, minor_indices)
    THEN [res |-> "Ok",
          pattern |-> [major_dim |-> major_dim, minor_dim |-> minor_dim,
                       major_offsets |-> major_offsets,
                       minor_indices |-> minor_indices]]
    ELSE [res |-> "Err"]

\* the valid pattern whose column j (from 0) has the rows cols[j + 1]
RECURSIVE OffsetsOf(_)
OffsetsOf(cols) ==
    IF cols = <<>> THEN <<0>>
    ELSE OffsetsOf(SubSeq(cols, 1, Len(cols) - 1))
             \o <<OffsetsOf(SubSeq(cols, 1, Len(cols) - 1))[Len(cols)]
                      + Cardinality(cols[Len(cols)])>>

RECURSIVE IndicesOf(_)
IndicesOf(cols) ==
    IF cols = <<>> THEN <<>> ELSE Sorted(cols[1]) \o IndicesOf(Tail(cols))

PatternOf(cols) ==
    [major_dim |-> Len(cols), minor_dim |-> PatternDim,
     major_offsets |-> OffsetsOf(cols), minor_indices |-> IndicesOf(cols)]

\* the PatternDim x PatternDim patterns
Patterns ==
    {PatternOf(cols) : cols \in [1 .. PatternDim -> SUBSET (0 .. (PatternDim - 1))]}

RECURSIVE UnionLanes(_, _, _)
\* union(): the minor_indices the loop may collect for the columns j ..
\* major_dim - 1, the union of each pair of lanes in the order of a HashSet
UnionLanes(a, b, j) ==
    IF j >= a.major_dim THEN {<<>>}
    ELSE {set \o rest : set \in Orders(Range(lane(a, j)) \cup Range(lane(b, j))),
                        rest \in UnionLanes(a, b, j + 1)}

RECURSIVE UnionOffsets(_, _, _, _)
\* union(): the major_offsets the loop pushes for the columns j ..
\* major_dim - 1, one at the head of each pass
UnionOffsets(a, b, j, offset) ==
    IF j >= a.major_dim THEN <<>>
    ELSE <<offset>>
         \o UnionOffsets(a, b, j + 1,
                         offset + Cardinality(Range(lane(a, j)) \cup Range(lane(b, j))))

\* MatrixSparsity::union for SparsityPattern: the values it may return
union(a, b) ==
    {try_from_offsets_and_indices(a.major_dim, a.minor_dim,
                                  UnionOffsets(a, b, 0, 0), minor_indices) :
         minor_indices \in UnionLanes(a, b, 0)}

\* a CSC matrix: a pattern and the value of each entry, in the order of
\* minor_indices
Matrices ==
    {[pattern |-> pat, values |-> [k \in 1 .. Len(pat.minor_indices) |-> k + v]] :
         pat \in Patterns, v \in {0, 2}}

\* vectors of PatternDim entries, and scalars
Vectors == [1 .. PatternDim -> {-1, 0, 2}]
Scalars == {0, 1, 2}

RECURSIVE Sum(_, _)
\* the sum of f over the set S
Sum(f, S) ==
    IF S = {} THEN 0 ELSE f[CHOOSE k \in S : TRUE] + Sum(f, S \ {CHOOSE k \in S : TRUE})

\* the major index (from 0) of entry k of the pattern
ColumnOf(pat, k) ==
    CHOOSE j \in 0 .. (pat.major_dim - 1) :
        pat.major_offsets[j + 1] < k /\ k <= pat.major_offsets[j + 2]

\* &CscMatrix * &DVector: row i (from 1) of the product sums values[k] *
\* x[column of k] over the entries k of row i - 1
MatVec(m, x) ==
    [i \in 1 .. m.pattern.minor_dim |->
        Sum([k \in 1 .. Len(m.values) |-> m.values[k] * x[ColumnOf(m.pattern, k) + 1]],
            {k \in 1 .. Len(m.values) : m.pattern.minor_indices[k] = i - 1})]

\* DVector::axpy(a, x, b): self = a * x + b * self
axpy(y, a, x, b) == [i \in 1 .. Len(y) |-> a * x[i] + b * y[i]]

\* the vector tmp after "tmp *= alpha"
ScaledBy(tmp, alpha) == [i \in 1 .. Len(tmp) |-> tmp[i] * alpha]

\* Matrix::gemv for CscMatrix: the vector it leaves in y
gemv(m, alpha, x, beta, y) == axpy(y, alpha, ScaledBy(MatVec(m, x), alpha), beta)

InitSparse ==
    /\ bdf = new(InitialState(One))
    /\ problem = NoProblem
    /\ ret = "Ok"
    /\ log = EmptyLog
    /\ kicks = 0
    /\ stops = 0
    /\ run = 0
    /\ smalls = 0
    /\ convergence = set_max_iter(DefaultConvergence, NEWTON_MAXITER)
    /\ solution = DefaultSolution

\* one call of a.union(&b)
Union ==
    /\ log = EmptyLog
    /\ \E a, b \in Patterns :
         \E r \in union(a, b) :
             /\ ret' = r.res
             /\ log' = [op |-> "union", arg |-> [a |-> a, b |-> b], out |-> r]
    /\ UNCHANGED <<bdf, problem, kicks, stops, run, smalls, convergence, solution>>

\* one call of m.gemv(alpha, &x, beta, &mut y)
Gemv ==
    /\ log = EmptyLog
    /\ \E m \in Matrices, x, y \in Vectors, alpha, beta \in Scalars :
         log' = [op |-> "gemv",
                 arg |-> [m |-> m, alpha |-> alpha, x |-> x, beta |-> beta, y |-> y],
                 out |-> gemv(m, alpha, x, beta, y)]
    /\ ret' = "Ok"
    /\ UNCHANGED <<bdf, problem, kicks, stops, run, smalls, convergence, solution>>

NextSparse == Union \/ Gemv

SpecSparse == InitSparse /\ [][NextSparse]_vars

\* ------------------------------------------------------------------------
\* Dense output
\* ------------------------------------------------------------------------
\* Bdf::interpolate; interpolate_out and interpolate_sens test t the same way
interpolate(b, t) ==
    IF b.is_state_modified
    THEN IF t = b.t
         THEN [res |-> "Ok", value |-> b.y]
         ELSE [res |-> "InterpolationTimeOutsideCurrentStep", value |-> None]
    ELSE IF \/ (RGt(b.h, Zero) /\ RGt(t, b.t))
            \/ (~RGt(b.h, Zero) /\ RLt(t, b.t))
    THEN [res |-> "InterpolationTimeAfterCurrentTime", value |-> None]
    ELSE [res |-> "Ok", value |-> interpolate_from_diff(t, b.diff, b.t, b.h, b.order)]

\* the times a caller asks for, in half steps back from state.t: beyond the
\* current time, at it, inside the last step and before its start
InterpolationOffsets == {-1, 0, 1, 3}
InterpolationTimes(b) ==
    {RSub(b.t, RMul(Rat(m, 2), b.h)) : m \in InterpolationOffsets}

\* the trace once interpolate(t) returned r; interpolate takes &self
Interpolated(r, t) ==
    /\ ret' = r.res
    /\ log' = [EmptyLog EXCEPT !.op = "interpolate", !.arg = t]

\* dense output is asked for in the first KickSteps steps of a run
Interpolate ==
    /\ Alive
    /\ Small(bdf)
    /\ bdf.number_of_steps <= KickSteps
    /\ \E t \in InterpolationTimes(bdf) : Interpolated(interpolate(bdf, t), t)
    /\ UNCHANGED <<bdf, problem, kicks, stops, run, smalls, convergence, solution>>

NextInterpolate == Step \/ Interpolate

SpecInterpolate == Init /\ [][NextInterpolate]_vars

\* ------------------------------------------------------------------------
\* Rescaling the history of a solver of any order
\* ------------------------------------------------------------------------
\* the factors h is scaled by
RescaleFactors == {Rat(1, 3), Rat(1, 2), One, FromInt(2), FromInt(3)}

InitRescale ==
    /\ \E k \in 1 .. MAX_ORDER :
         \E d \in [0 .. MAX_ORDER -> {Zero, One}] : bdf = new(HistoryState(k, d))
    /\ problem = [has_root |-> FALSE]
    /\ ret = "Ok"
    /\ log = EmptyLog
    /\ kicks = 0
    /\ stops = 0
    /\ run = 0
    /\ smalls = 0
    /\ convergence = set_max_iter(DefaultConvergence, NEWTON_MAXITER)
    /\ solution = DefaultSolution

\* the solver and the trace once _update_step_size(factor) returned r
StepSizeUpdated(r, factor) ==
    /\ bdf' = r.b
    /\ ret' = IF r.res = "ok" THEN "Ok" ELSE r.res
    /\ log' = [EmptyLog EXCEPT !.op = "_update_step_size", !.arg = factor]
    /\ run' = RunAfter(bdf, r.b, run)

\* one call of _update_step_size on the solver as Bdf::new left it
UpdateStepSize ==
    /\ log = EmptyLog
    /\ \E factor \in RescaleFactors :
         StepSizeUpdated(_update_step_size(bdf, factor), factor)
    /\ UNCHANGED <<problem, kicks, stops, smalls, convergence, solution>>

NextRescale == UpdateStepSize

SpecRescale == InitRescale /\ [][NextRescale]_vars

\* ------------------------------------------------------------------------
\* Callable::jacobian: the Jacobian by probing with unit vectors
\* ------------------------------------------------------------------------
\* the probe vector left as it is after the column was read
ProbeKept(v, j) == v

\* V::zeros(n)
zeros(n) == [i \in 1 .. n |-> 0]

\* jacobian_action(x, v, col) of an operator whose Jacobian at x is jac:
\* col = jac * v
jacobian_action(jac, v) ==
    [i \in 1 .. Len(v) |-> Sum([j \in 1 .. Len(v) |-> jac[i][j] * v[j]], 1 .. Len(v))]

\* v[j] = T::one(), j counted from 0
ProbeSet(v, j) == [v EXCEPT ![j + 1] = 1]

\* v[j] = T::zero(), j counted from 0
ProbeCleared(v, j) == [v EXCEPT ![j + 1] = 0]

RECURSIVE ColumnTriplets(_, _, _, _)
\* the inner loop over i (from 0): the triplets pushed for column j
ColumnTriplets(col, i, j, n) ==
    IF i >= n THEN <<>>
    ELSE (IF col[i + 1] # 0 THEN << <<i, j, col[i + 1]>> >> ELSE <<>>)
             \o ColumnTriplets(col, i + 1, j, n)

RECURSIVE JacobianLoop(_, _, _, _)
\* the loop over j (from 0): the triplets pushed for the columns j .. n - 1
\* and the probe vector the loop ends with
JacobianLoop(jac, v, j, triplets) ==
    IF j >= Len(v) THEN [v |-> v, triplets |-> triplets]
    ELSE JacobianLoop(jac, ProbeCleared(ProbeSet(v, j), j), j + 1,
                      triplets \o ColumnTriplets(jacobian_action(jac, ProbeSet(v, j)),
                                                 0, j, Len(v)))

\* Callable::jacobian(x) for an operator whose Jacobian at x is jac: the
\* triplets handed to M::try_from_triplets(n, n, triplets)
jacobian(jac, n) == JacobianLoop(jac, zeros(n), 0, <<>>)

\* M::try_from_triplets: entry (i, j) of the matrix, the sum of the
\* triplets pushed for it
TripletEntry(triplets, i, j) ==
    Sum([k \in 1 .. Len(triplets) |-> triplets[k][3]],
        {k \in 1 .. Len(triplets) : triplets[k][1] = i /\ triplets[k][2] = j})

\* M::try_from_triplets: the entries the matrix stores
TripletStructure(triplets) ==
    {<<triplets[k][1], triplets[k][2]>> : k \in 1 .. Len(triplets)}

\* the states of an operator and the entries of its Jacobian
MaxStates == 2
JacobianEntries == {-1, 0, 1, 2}
Jacobians(n) == [1 .. n -> [1 .. n -> JacobianEntries]]

\* one call of op.jacobian(&x)
Jacobian ==
    /\ log = EmptyLog
    /\ \E n \in 1 .. MaxStates :
         \E jac \in Jacobians(n) :
             log' = [op |-> "jacobian", arg |-> [n |-> n, jac |-> jac],
                     out |-> jacobian(jac, n)]
    /\ ret' = "Ok"
    /\ UNCHANGED <<bdf, problem, kicks, stops, run, smalls, convergence, solution>>

NextJacobian == Jacobian

SpecJacobian == InitSparse /\ [][NextJacobian]_vars

\* ------------------------------------------------------------------------
\* The Newton iteration's calls of its Convergence
\* ------------------------------------------------------------------------
\* calls of check_new_iteration between two reset() calls
MaxCalls == 5

\* tol as Convergence::new computes it, for rtol = 1e-6, rtol near 4.9e-4
\* and rtol = 1.6e-3
Tols == {Rat(1, 2000), Rat(1, 90), Rat(1, 50)}
\* max_iter as a caller of Convergence::new or set_max_iter sets it
MaxIters == {1, 2, NEWTON_MAXITER}
\* the norms of a correction: Zero (at most EPSILON) and larger ones
Etas == {Zero, Rat(1, 100), Rat(1, 10), One, FromInt(2)}

InitConvergence ==
    /\ bdf = new(InitialState(One))
    /\ problem = NoProblem
    /\ ret = "Ok"
    /\ log = EmptyLog
    /\ kicks = 0
    /\ stops = 0
    /\ run = 0
    /\ smalls = 0
    /\ \E tol \in Tols, max_iter \in MaxIters :
         convergence = NewConvergence(tol, max_iter)
    /\ solution = DefaultSolution

\* the record of a call: its number, whether every call so far returned
\* Continue, and its norm and status
CallRecorded(c, norm, status) ==
    [c EXCEPT !.calls = @ + 1,
              !.open = @ /\ status = "Continue",
              !.last = <<[norm |-> norm, status |-> status]>>]

\* what the caller sees of a call
Checked(before, norm, r) ==
    /\ convergence' = CallRecorded(r.c, norm, r.status)
    /\ ret' = IF r.status = "panic" THEN "panic" ELSE "Ok"
    /\ log' = [op |-> "check_new_iteration",
               arg |-> [norm |-> norm, c |-> before], out |-> r.status]

\* one call of convergence.check_new_iteration(dy, y)
CheckNewIteration ==
    /\ ret # "panic"
    /\ convergence.calls < MaxCalls
    /\ \E norm \in Etas : Checked(convergence, norm, check_new_iteration(convergence, norm))
    /\ UNCHANGED <<bdf, problem, kicks, stops, run, smalls, solution>>

\* one call of convergence.reset()
Reset ==
    /\ ret # "panic"
    /\ convergence.calls > 0
    /\ convergence' = reset(convergence)
    /\ ret' = "Ok"
    /\ log' = [op |-> "reset", arg |-> [c |-> convergence], out |-> "Ok"]
    /\ UNCHANGED <<bdf, problem, kicks, stops, run, smalls, solution>>

NextConvergence == CheckNewIteration \/ Reset

SpecConvergence == InitConvergence /\ [][NextConvergence]_vars





\* ------------------------------------------------------------------------
\* A caller that modifies or replaces the state between steps
\* ------------------------------------------------------------------------
\* Bdf::set_state: self.state = state; the solver's other fields stay
set_state(b, state) ==
    [b EXCEPT !.t = state.t, !.h = state.h, !.y = state.y, !.dy = state.dy,
              !.order = state.order, !.diff = state.diff,
              !.is_state_modified = TRUE]

\* Bdf::state_mut, and the caller writing y through the reference
state_mut(b, y) == [b EXCEPT !.is_state_modified = TRUE, !.y = y]

\* the states a caller restores with set_state: checkpoints of order k
\* whose differences are all d
SetStateOrders == {1, 2, 3}
States == {HistoryState(k, [c \in 0 .. MAX_ORDER |-> d]) :
               k \in SetStateOrders, d \in {Zero, One}}
\* the values a caller writes to y
StateValues == {Zero, FromInt(2)}

\* the trace of a call that hands the state to the caller
Modified(b, op) ==
    /\ bdf' = b
    /\ ret' = "Ok"
    /\ log' = [EmptyLog EXCEPT !.op = op]
    /\ run' = RunAfter(bdf, b, run)

\* the caller modifies the state in the first ShortSteps steps of a run, as
\* long as no solve and no error test failed, and steps before it modifies
\* the state again
MayModify(b) ==
    /\ MayDisturb(b)
    /\ ~b.is_state_modified
    /\ b.number_of_nonlinear_solver_fails = 0
    /\ b.number_of_error_test_failures = 0

\* one call of set_state
SetState ==
    /\ Alive
    /\ MayModify(bdf)
    /\ \E state \in States : Modified(set_state(bdf, state), "set_state")
    /\ UNCHANGED <<problem, kicks, stops, smalls, convergence, solution>>

\* one call of state_mut
StateMut ==
    /\ Alive
    /\ MayModify(bdf)
    /\ \E y \in StateValues : Modified(state_mut(bdf, y), "state_mut")
    /\ UNCHANGED <<problem, kicks, stops, smalls, convergence, solution>>

\* one call of step() in the first ShortSteps steps of a run, all its solves
\* and error tests passing
ShortStep ==
    /\ MayDisturb(bdf)
    /\ Step
    /\ bdf'.number_of_nonlinear_solver_fails = 0
    /\ bdf'.number_of_error_test_failures = 0

\* the first call of set_stop_time
FirstSetStopTime == stops = 0 /\ SetStopTime

\* one call of interpolate on a modified state
ModifiedInterpolate == bdf.is_state_modified /\ Interpolate

NextModify ==
    ShortStep \/ FirstSetStopTime \/ ModifiedInterpolate \/ SetState \/ StateMut

\* a solver as Bdf::new leaves it for h0 = 1.5
InitModify == Init /\ bdf.h = Rat(3, 2)

SpecModify == InitModify /\ [][NextModify]_vars



\* ------------------------------------------------------------------------
\* The predicted error norm over all channels
\* ------------------------------------------------------------------------
\* Bdf::predict_error_control(order) over the channels ch: ch.y is
\* diff.column(order + 1).squared_norm(..), ch.out that of gdiff (None
\* unless output_in_error_control), ch.sens those of every sdiff and
\* ch.sens_out those of every sgdiff (empty unless included in the error
\* control)
predict_error_control_channels(order, ch) ==
    RDiv(RAdd(RAdd(RMul(ch.y, error_const2(order)),
                   IF ch.out # None THEN RMul(ch.out, error_const2(order)) ELSE Zero),
              RAdd(WeightedSum(ch.sens, error_const2(order)),
                   WeightedSum(ch.sens_out, error_const2(order)))),
         FromInt(1 + (IF ch.out # None THEN 1 ELSE 0)))

\* the orders predict_error_control is called with here (see
\* ErrorControlOrders for order 3)
PredictOrders == {1, 2, 4, MAX_ORDER}

\* one call of predict_error_control(order) on the channel norms ch
PredictErrorControl ==
    /\ log = EmptyLog
    /\ \E order \in PredictOrders, ch \in Channels :
         log' = [EmptyLog EXCEPT !.op = "predict_error_control",
                                 !.arg = [order |-> order, ch |-> ch],
                                 !.error_norm = predict_error_control_channels(order, ch)]
    /\ UNCHANGED <<bdf, problem, ret, kicks, stops, run, smalls, convergence, solution>>

NextPredictErrorControl == PredictErrorControl

SpecPredictErrorControl == InitErrorControl /\ [][NextPredictErrorControl]_vars

\* ------------------------------------------------------------------------
\* SparsityPattern::try_from_indices
\* ------------------------------------------------------------------------
\* rows of the patterns built from indices
MaxRows == 3

\* indices.sort_unstable_by_key(|&(_, j)| j): the orders the vector may be
\* left in, sorted by column and in any order within a column
SortedByColumn(ind) ==
    {q \in Orders(Range(ind)) : \A k \in 1 .. (Len(q) - 1) : q[k][2] <= q[k + 1][2]}

RECURSIVE IndexLoop(_, _, _, _)
\* try_from_indices: the loop over the sorted (i, j), which pushes the
\* length of minor_indices once per column passed and then the row i, and
\* the push of the final length after it
IndexLoop(ind, curr_col, major_offsets, minor_indices) ==
    IF ind = <<>>
    THEN [major_offsets |-> Append(major_offsets, Len(minor_indices)),
          minor_indices |-> minor_indices]
    ELSE IndexLoop(Tail(ind),
                   IF curr_col < ind[1][2] THEN ind[1][2] ELSE curr_col,
                   major_offsets \o [k \in 1 .. (ind[1][2] - curr_col) |-> Len(minor_indices)],
                   Append(minor_indices, ind[1][1]))

\* the pattern try_from_offsets_and_indices is asked to check
PatternChecked(ncols, nrows, built) ==
    try_from_offsets_and_indices(ncols, nrows, built.major_offsets, built.minor_indices)

\* MatrixSparsity::try_from_indices: the values it may return
try_from_indices(nrows, ncols, ind) ==
    {PatternChecked(ncols, nrows, IndexLoop(sorted, 0, <<>>, <<>>)) :
         sorted \in SortedByColumn(ind)}

\* SparsityPattern::get_index for one (row, column) pair of the pattern
get_index(pat, i, j) ==
    pat.major_offsets[j + 1]
        + (CHOOSE k \in 1 .. Len(lane(pat, j)) : lane(pat, j)[k] = i) - 1

\* the vectors of distinct in-range (row, column) pairs a caller passes
IndexVectors(nrows, ncols) ==
    UNION {Orders(S) : S \in SUBSET ((0 .. (nrows - 1)) \X (0 .. (ncols - 1)))}

\* one call of SparsityPattern::try_from_indices(nrows, ncols, indices)
TryFromIndices ==
    /\ log = EmptyLog
    /\ \E nrows \in 0 .. MaxRows, ncols \in 0 .. PatternDim :
         \E ind \in IndexVectors(nrows, ncols) :
             \E r \in try_from_indices(nrows, ncols, ind) :
                 /\ ret' = r.res
                 /\ log' = [op |-> "try_from_indices",
                            arg |-> [nrows |-> nrows, ncols |-> ncols, indices |-> ind],
                            out |-> r]
    /\ UNCHANGED <<bdf, problem, kicks, stops, run, smalls, convergence, solution>>

NextTryFromIndices == TryFromIndices

SpecTryFromIndices == InitSparse /\ [][NextTryFromIndices]_vars

\* ------------------------------------------------------------------------
\* OdeSolverSolution::push and push_sens
\* ------------------------------------------------------------------------
\* points of a solution
MaxPoints == 4

\* the least element of a nonempty set of positions, or otherwise
FirstOr(S, otherwise) == IF S = {} THEN otherwise ELSE SetMin(S)

\* an index that puts the new point before the points of the same time
IndexBeforeEqual(sol, t) ==
    FirstOr({k \in 1 .. Len(sol.solution_points) :
                 IF sol.negative_time THEN sol.solution_points[k].t <= t
                 ELSE sol.solution_points[k].t >= t},
            Len(sol.solution_points) + 1) - 1

\* OdeSolverSolution::get_index: the position (from 0) of the first point
\* beyond t, or the number of points
solution_get_index(sol, t) ==
    FirstOr({k \in 1 .. Len(sol.solution_points) :
                 IF sol.negative_time THEN sol.solution_points[k].t < t
                 ELSE sol.solution_points[k].t > t},
            Len(sol.solution_points) + 1) - 1

\* Vec::insert(index, point), index from 0
Inserted(points, index, point) ==
    SubSeq(points, 1, index) \o <<point>> \o SubSeq(points, index + 1, Len(points))

\* OdeSolverSolution::push, from the index on
PushedAt(sol, index, state, t) ==
    [sol EXCEPT !.solution_points = Inserted(@, index, [state |-> state, t |-> t]),
                !.pushes = @ + 1]

\* OdeSolverSolution::push
push(sol, state, t) == PushedAt(sol, solution_get_index(sol, t), state, t)

\* push_sens: sens_solution_points once initialised for sens.len() columns
SensInitialised(sol, sens) ==
    IF sol.sens_solution_points = <<>>
    THEN [i \in 1 .. Len(sens) |-> <<>>]
    ELSE sol.sens_solution_points[1]

\* push_sens: the columns i for which the loop's insert aborts: the
\* solution has no column i, or the column is shorter than index
Aborting(columns, index, sens) ==
    {i \in 1 .. Len(sens) : i > Len(columns) \/ index > Len(columns[i])}

\* push_sens: the loop over sens, up to the first insert that aborts
SensInserted(columns, index, t, sens) ==
    [i \in 1 .. Len(columns) |->
        IF i <= Len(sens) /\ i < FirstOr(Aborting(columns, index, sens), Len(sens) + 1)
        THEN Inserted(columns[i], index, [state |-> sens[i], t |-> t])
        ELSE columns[i]]

\* OdeSolverSolution::push_sens, from the index on
PushedSensAt(sol, index, state, t, sens) ==
    [sol |-> [sol EXCEPT
                 !.solution_points = Inserted(@, index, [state |-> state, t |-> t]),
                 !.sens_solution_points =
                     <<SensInserted(SensInitialised(sol, sens), index, t, sens)>>],
     res |-> IF Aborting(SensInitialised(sol, sens), index, sens) = {}
             THEN "Ok" ELSE "panic"]

\* OdeSolverSolution::push_sens
push_sens(sol, state, t, sens) ==
    PushedSensAt(sol, solution_get_index(sol, t), state, t, sens)

\* the times of the points pushed
PointTimes == {0, 1, 2}
\* the number of sensitivities of the problem
NumSens == 2

InitSolution ==
    /\ bdf = new(InitialState(One))
    /\ problem = NoProblem
    /\ ret = "Ok"
    /\ log = EmptyLog
    /\ kicks = 0
    /\ stops = 0
    /\ run = 0
    /\ smalls = 0
    /\ convergence = set_max_iter(DefaultConvergence, NEWTON_MAXITER)
    /\ \E negative_time \in BOOLEAN :
         solution = [DefaultSolution EXCEPT !.negative_time = negative_time]

\* one call of solution.push(state, t); the state pushed is the number of
\* the call
Push ==
    /\ ret # "panic"
    /\ Len(solution.solution_points) < MaxPoints
    /\ \E t \in PointTimes :
         /\ solution' = push(solution, Len(solution.solution_points) + 1, t)
         /\ log' = [op |-> "push", arg |-> t]
    /\ UNCHANGED <<bdf, problem, ret, kicks, stops, run, smalls, convergence>>

\* what the caller sees of a call of push_sens
PushedSens(r, t) ==
    /\ solution' = r.sol
    /\ ret' = r.res
    /\ log' = [op |-> "push_sens", arg |-> t]

\* one call of solution.push_sens(state, t, sens); the state and the
\* sensitivities pushed are the number of the call
PushSens ==
    /\ ret # "panic"
    /\ Len(solution.solution_points) < MaxPoints
    /\ \E t \in PointTimes :
         PushedSens(push_sens(solution, Len(solution.solution_points) + 1, t,
                              [i \in 1 .. NumSens |-> Len(solution.solution_points) + 1]),
                    t)
    /\ UNCHANGED <<bdf, problem, kicks, stops, run, smalls, convergence>>

NextSolution == Push \/ PushSens

SpecSolution == InitSolution /\ [][NextSolution]_vars

\* ------------------------------------------------------------------------
\* VectorCommon::assert_eq
\* ------------------------------------------------------------------------
\* entries of the vectors compared
MaxLen == 2

\* the first index (from 0) whose elements differ by more than tol, as
\* <<i>>, or <<>>
FirstMismatch(a, b, tol) ==
    IF \E k \in 1 .. Len(a) : IAbs(a[k] - b[k]) > tol
    THEN <<SetMin({k \in 1 .. Len(a) : IAbs(a[k] - b[k]) > tol}) - 1>>
    ELSE <<>>

\* VectorCommon::assert_eq: assert_eq! on the lengths aborts; the loop
\* reports the first mismatch with eprintln! and breaks
assert_eq(a, b, tol) ==
    IF Len(a) # Len(b) THEN [res |-> "panic", reported |-> <<>>]
    ELSE [res |-> "Ok", reported |-> FirstMismatch(a, b, tol)]

\* the vectors and tolerances compared
ComparedVectors == UNION {[1 .. n -> {0, 1, 3}] : n \in 0 .. MaxLen}
ComparedTolerances == {0, 1}

\* one call of a.assert_eq(&b, tol)
AssertEq ==
    /\ log = EmptyLog
    /\ \E a, b \in ComparedVectors, tol \in ComparedTolerances :
         /\ ret' = assert_eq(a, b, tol).res
         /\ log' = [op |-> "assert_eq", arg |-> [a |-> a, b |-> b, tol |-> tol],
                    out |-> assert_eq(a, b, tol).reported]
    /\ UNCHANGED <<bdf, problem, kicks, stops, run, smalls, convergence, solution>>

NextAssertEq == AssertEq

SpecAssertEq == InitSparse /\ [][NextAssertEq]_vars

\* ------------------------------------------------------------------------
\* Properties
\* ------------------------------------------------------------------------
\* the last call was step() and it returned Ok(reason)
Succeeded == log.op = "step" /\ ret \in {"InternalTimestep", "RootFound", "TstopReached"}

\* C1: at return from every successful step(), state.y is the predicted
\* value plus the accepted correction, that is column 0 of the updated
\* difference matrix and the interpolant at state.t, and state.t = t_predict
C1_AcceptedYIsCorrected ==
    Succeeded =>
        /\ bdf.y = RAdd(bdf.y_predict, bdf.y_delta)
        /\ bdf.y = bdf.diff[0]
        /\ bdf.y = interpolate_from_diff(bdf.t, bdf.diff, bdf.t, bdf.h, bdf.order)
        /\ bdf.t = bdf.t_predict

\* C2: at return from every successful step(), state.dy is column 1 of
\* state.diff divided by state.h, for the h and diff the state holds then
C2_DyIsScaledFirstDifference ==
    Succeeded => bdf.dy = RDiv(bdf.diff[1], bdf.h)

\* C3: step() commits an attempt (advances state.t, counts the step) only
\* when the last solve of the attempt succeeded and error_control() returned
\* a norm <= 1 for it
C3_CommitOnlyAcceptedAttempts ==
    [][(bdf'.number_of_steps # bdf.number_of_steps \/ bdf'.t # bdf.t)
           => /\ log'.op = "step"
              /\ log'.solve_ok
              /\ RLe(log'.error_norm, One)]_vars

\* a step was committed with a nonzero correction after the error test had
\* rejected an attempt
C3_Witness ==
    /\ log.op = "step"
    /\ log.committed
    /\ bdf.y_delta # Zero
    /\ bdf.number_of_error_test_failures > 0
    /\ log.error_norm # Zero

\* C4: 1 <= state.order <= MAX_ORDER in every state of a solver constructed
\* at order 1, and a step changes the order by at most 1
C4_OrderStaysInRange ==
    /\ [](bdf.order \in 1..MAX_ORDER)
    /\ [][IAbs(bdf'.order - bdf.order) <= 1]_vars

\* the order decision was evaluated at order MAX_ORDER: the step before had
\* order MAX_ORDER too, as more than MAX_ORDER steps ran at it
C4_Witness ==
    /\ bdf.order = MAX_ORDER
    /\ log.order_ctl
    /\ log.run_at_ctl > MAX_ORDER

StateKept ==
    /\ bdf'.t = bdf.t
    /\ bdf'.y = bdf.y
    /\ bdf'.h = bdf.h
    /\ bdf'.order = bdf.order
    /\ bdf'.diff = bdf.diff

\* C6: when step() returns an error, state.t, state.y, state.h, state.order
\* and the difference matrix are what they were before the call
C6_ErrorLeavesStateUntouched ==
    [][(log'.op = "step" /\ ret' \in {"StepSizeTooSmall", "StopTimeBeforeCurrentTime"})
           => StateKept]_vars

\* ts lies strictly behind / strictly ahead of t in the direction of h
Behind(t, h, ts) == (RGt(h, Zero) /\ RLt(ts, t)) \/ (RLt(h, Zero) /\ RGt(ts, t))
Ahead(t, h, ts) == (RGt(h, Zero) /\ RGt(ts, t)) \/ (RLt(h, Zero) /\ RLt(ts, t))

\* the call changed state.h and left |state.h| < MIN_TIMESTEP
LeftStepTooSmall == bdf'.h # bdf.h /\ RLt(RAbs(bdf'.h), MIN_TIMESTEP)

\* C7 as stated: whenever a step-size update, clipping to the stop time
\* included, leaves |state.h| < MIN_TIMESTEP, the call returns StepSizeTooSmall
C7_TooSmallAlwaysReported ==
    [][LeftStepTooSmall => ret' = "StepSizeTooSmall"]_vars

\* C7 amended: a step-size update by the convergence-failure shrink, the
\* error-test shrink or the order/step-size control that leaves
\* |state.h| < MIN_TIMESTEP makes step() return StepSizeTooSmall; clipping h
\* to the stop time does not: the call returns normally with |h| that small
C7_TooSmallReportedUnlessClipped ==
    [][/\ (LeftStepTooSmall /\ log'.small_by # "tstop") => ret' = "StepSizeTooSmall"
       /\ ret' = "StepSizeTooSmall" => log'.small_by \in {"conv", "err", "ctl"}
       /\ log'.small_by = "tstop"
              => /\ ret' \in {"Ok", "InternalTimestep"}
                 /\ RLt(RAbs(bdf'.h), MIN_TIMESTEP)
                 /\ RAdd(bdf'.t, bdf'.h) = bdf'.tstop]_vars

\* step() returned StepSizeTooSmall from its order/step-size control
C7_Witness ==
    /\ ret = "StepSizeTooSmall"
    /\ log.small_by = "ctl"
    /\ RLt(RAbs(bdf.h), MIN_TIMESTEP)

\* C8: when set_stop_time returns StopTimeBeforeCurrentTime no stop time is
\* pending afterwards and state.t, state.y, state.h and diff are unchanged
C8_RefusedStopTimeIsCleared ==
    [][(log'.op = "set_stop_time" /\ ret' = "StopTimeBeforeCurrentTime")
           => /\ bdf'.tstop = None
              /\ bdf'.t = bdf.t
              /\ bdf'.y = bdf.y
              /\ bdf'.h = bdf.h
              /\ bdf'.diff = bdf.diff]_vars

\* set_stop_time refused a stop time while another one was pending
C8_Witness ==
    /\ log.op = "set_stop_time"
    /\ ret = "StopTimeBeforeCurrentTime"
    /\ log.had_tstop
    /\ bdf.tstop = None

\* C9 as stated: set_stop_time(ts) returns StopTimeBeforeCurrentTime exactly
\* when ts lies strictly behind state.t; otherwise ts is left pending
C9_RefusedIffStrictlyBehind ==
    [][log'.op = "set_stop_time"
           => /\ (ret' = "StopTimeBeforeCurrentTime") <=> Behind(bdf.t, bdf.h, log'.arg)
              /\ ~Behind(bdf.t, bdf.h, log'.arg) => bdf'.tstop = log'.arg]_vars

\* C9 amended: set_stop_time(ts) returns StopTimeBeforeCurrentTime exactly
\* when ts is not strictly ahead of state.t, that is behind it or equal to
\* it; a stop time strictly ahead is accepted and left pending
C9_RefusedIffNotAhead ==
    [][log'.op = "set_stop_time"
           => /\ (ret' = "StopTimeBeforeCurrentTime") <=> ~Ahead(bdf.t, bdf.h, log'.arg)
              /\ Ahead(bdf.t, bdf.h, log'.arg) => (ret' = "Ok" /\ bdf'.tstop = log'.arg)]_vars

\* set_stop_time refused a stop time equal to the current time
C9_Witness ==
    /\ log.op = "set_stop_time"
    /\ ret = "StopTimeBeforeCurrentTime"
    /\ log.arg = bdf.t

\* C10: a stop time left behind by an accepted step is reported by step() as
\* the error StopTimeBeforeCurrentTime, and step() never aborts
C10_StopTimeBehindIsAnError ==
    /\ ret # "panic"
    /\ (/\ log.op = "step"
        /\ log.committed
        /\ ret # "RootFound"
        /\ bdf.tstop # None
        /\ Behind(bdf.t, bdf.h, bdf.tstop)) => ret = "StopTimeBeforeCurrentTime"

\* C11: while a stop time is pending and the solver can be stepped, state.t
\* has not passed it and state.h is clipped so that t + h does not pass it
\* either, whatever step() returned last (RootFound included)
C11_PendingStopTimeNeverPassed ==
    (ret # "panic" /\ bdf.tstop # None)
        => /\ ~Behind(bdf.t, bdf.h, bdf.tstop)
           /\ ~Behind(RAdd(bdf.t, bdf.h), bdf.h, bdf.tstop)

\* t lies outside the interval between state.t - state.h and state.t
OutsideCurrentStep(b, t) ==
    IF RGt(b.h, Zero)
    THEN RGt(t, b.t) \/ RLt(t, RSub(b.t, b.h))
    ELSE RLt(t, b.t) \/ RGt(t, RSub(b.t, b.h))

\* C12: after a step, with an unmodified state, interpolate(t') returns an error for every
\* t' outside [t - h, t], beyond the current time as well as before t - h
C12_InterpolateOutsideStepIsAnError ==
    (log.op = "interpolate" /\ ~bdf.is_state_modified
                            /\ bdf.number_of_steps > 0
                            /\ OutsideCurrentStep(bdf, log.arg))
        => ret \in {"InterpolationTimeOutsideCurrentStep",
                    "InterpolationTimeAfterCurrentTime"}

Identity(n) ==
    [dim |-> n,
     e   |-> [i \in 0 .. (n - 1) |-> [j \in 0 .. (n - 1) |-> IF i = j THEN One ELSE Zero]]]

\* the first order + 1 columns of the difference matrix and h are those of b0
HistoryRestored(b0, b) ==
    /\ b.h = b0.h
    /\ \A c \in 0 .. b0.order : b.diff[c] = b0.diff[c]

\* C13 as stated: U = R(k, 1), and R(k, rho) * R(k, 1/rho) is the identity
C13_RTimesRInverseIsIdentity ==
    log.op = "_update_step_size"
        => /\ bdf.u = _compute_r(bdf.order, One)
           /\ MatMul(_compute_r(bdf.order, log.arg), _compute_r(bdf.order, RInv(log.arg)))
                  = Identity(bdf.order + 1)

\* C13 amended: U = R(k, 1) is its own inverse and (R(k, rho) * U) *
\* (R(k, 1/rho) * U) is the identity, so _update_step_size(1/rho) after
\* _update_step_size(rho) restores h and columns 0..=k of the history
C13_RescalingIsUndone ==
    /\ [](log.op = "_update_step_size"
            => /\ bdf.u = _compute_r(bdf.order, One)
               /\ MatMul(bdf.u, bdf.u) = Identity(bdf.order + 1)
               /\ MatMul(MatMul(_compute_r(bdf.order, log.arg), bdf.u),
                         MatMul(_compute_r(bdf.order, RInv(log.arg)), bdf.u))
                      = Identity(bdf.order + 1))
    /\ [][log'.op = "_update_step_size"
            => HistoryRestored(bdf, _update_step_size(bdf', RInv(log'.arg)).b)]_vars

\* a history of order 5 with a nonzero fifth difference was rescaled by 1/3
C13_Witness ==
    /\ log.op = "_update_step_size"
    /\ log.arg = Rat(1, 3)
    /\ bdf.order = MAX_ORDER
    /\ bdf.diff[MAX_ORDER] # Zero
    /\ bdf.h = FromInt(2)

\* the passes of the loop that ended in one of whats
Passes(tr, whats) == {i \in 1 .. Len(tr) : tr[i].what \in whats}
\* the passes that were followed by another pass of the same call
Retries(tr, whats) == {i \in 1 .. (Len(tr) - 1) : tr[i].what \in whats}

\* C14 as stated: within one step() call the loop makes at most two retries
\* after a convergence failure and at most one retry after a failed error
\* test
C14_RetriesBoundedByCount ==
    log.op = "step"
        => /\ Cardinality(Retries(bdf.attempts, {"retried", "shrunk"})) <= 2
           /\ Cardinality(Retries(bdf.attempts, {"rejected"})) <= 1

\* the step size h1 that follows a pass made with h0 that ended in what
ShrinksAsCoded(what, h0, h1) ==
    CASE what = "retried"  -> h1 = h0
      [] what = "shrunk"   -> h1 = RMul(Rat(3, 10), h0)
      [] what = "rejected" -> /\ RLe(RAbs(h1), RMul(Rat(9, 10), RAbs(h0)))
                              /\ RGe(RAbs(h1), RMul(MIN_FACTOR, RAbs(h0)))
                              /\ RGt(RMul(h1, h0), Zero)
      [] OTHER -> TRUE

\* the loop of one call, from its passes tr, the step size h_in it started
\* with, the step size h_out the call left and the value res it returned
LoopBoundedByStepSize(tr, h_in, h_out, res) ==
    /\ Len(tr) >= 1
    /\ tr[1].h = h_in
    /\ Cardinality(Passes(tr, {"retried"})) <= 1
    /\ \A i \in 1 .. (Len(tr) - 1) :
         /\ tr[i].what # "accepted"
         /\ ShrinksAsCoded(tr[i].what, tr[i].h, tr[i + 1].h)
         /\ tr[i].what \in {"shrunk", "rejected"}
                => RGe(RAbs(tr[i + 1].h), MIN_TIMESTEP)
    /\ \/ tr[Len(tr)].what = "accepted"
       \/ /\ tr[Len(tr)].what \in {"shrunk", "rejected"}
          /\ ShrinksAsCoded(tr[Len(tr)].what, tr[Len(tr)].h, h_out)
          /\ RLt(RAbs(h_out), MIN_TIMESTEP)
          /\ res = "StepSizeTooSmall"

\* C14 amended: the loop is bounded by the step size, not by a count: only
\* the first convergence failure of a call is retried with the same h, every
\* other retry follows a scaling of h by 0.3 (convergence failure) or by a
\* factor in [0.2, 0.9] (error test) that left |h| >= MIN_TIMESTEP, and the
\* loop ends by accepting a pass or, when a scaling left |h| < MIN_TIMESTEP,
\* by returning StepSizeTooSmall
C14_RetriesBoundedByStepSize ==
    [][log'.op = "step"
           => LoopBoundedByStepSize(bdf'.attempts, bdf.h, bdf'.h, ret')]_vars

\* a call whose loop retried twice after a failed error test and then
\* accepted its third pass
C14_Witness ==
    /\ log.op = "step"
    /\ log.committed
    /\ Len(bdf.attempts) = 3
    /\ Cardinality(Retries(bdf.attempts, {"rejected"})) = 2

\* a solve failed in pass i of the loop
FailedSolve(tr, i) == tr[i].what \in {"retried", "shrunk"}

\* C15 as stated: a failed solve scales h by 0.3 only when the pass before
\* it in the same call failed to solve too; the first failure of a call,
\* and the first failure after an error-test rejection, retry with the same h
C15_ShrinkOnlyAfterTwoFailuresInARow ==
    log.op = "step"
        => \A i \in 1 .. Len(bdf.attempts) :
             /\ bdf.attempts[i].what = "shrunk" => (i > 1 /\ FailedSolve(bdf.attempts, i - 1))
             /\ (bdf.attempts[i].what = "retried" /\ i < Len(bdf.attempts))
                    => bdf.attempts[i + 1].h = bdf.attempts[i].h

\* C15 amended: the first failed solve of a step() call is retried with the
\* same h; every later failed solve of the call scales h by 0.3, whether the
\* pass before it failed to solve, was rejected by the error test or not
C15_ShrinkAfterFirstFailureOfCall ==
    log.op = "step"
        => \A i \in 1 .. Len(bdf.attempts) :
             /\ bdf.attempts[i].what = "retried"
                    => /\ \A j \in 1 .. (i - 1) : ~FailedSolve(bdf.attempts, j)
                       /\ i < Len(bdf.attempts)
                       /\ bdf.attempts[i + 1].h = bdf.attempts[i].h
             /\ bdf.attempts[i].what = "shrunk"
                    => /\ \E j \in 1 .. (i - 1) : FailedSolve(bdf.attempts, j)
                       /\ (IF i < Len(bdf.attempts) THEN bdf.attempts[i + 1].h ELSE bdf.h)
                              = RMul(Rat(3, 10), bdf.attempts[i].h)

\* a call whose solve failed, then succeeded and was rejected by the error
\* test, then failed again and scaled h by 0.3
C15_Witness ==
    /\ log.op = "step"
    /\ Len(bdf.attempts) >= 3
    /\ bdf.attempts[1].what = "retried"
    /\ bdf.attempts[2].what = "rejected"
    /\ bdf.attempts[3].what = "shrunk"

\* the channels of ch as one sequence of weighted squared norms
AllChannels(ch) ==
    <<ch.y>> \o (IF ch.out # None THEN <<ch.out>> ELSE <<>>) \o ch.sens \o ch.sens_out

\* C16: error_control() returns the sum over all channels, the state channel
\* y included, of error_const2[order] times the channel's weighted squared
\* norm, divided by the number of channels summed
C16_ErrorNormUsesOrderConstant ==
    log.op = "error_control"
        => log.error_norm = RDiv(WeightedSum(AllChannels(log.arg), error_const2(bdf.order)),
                                 FromInt(Len(AllChannels(log.arg))))

\* every Rc of the problem, that of the equations and that of each operator
\* present, has one owner
UniquelyOwned(pr) == \A rc \in DOMAIN pr.owners : pr.owners[rc] <= 1

\* the equations and every operator present hold the parameters q
ParamsInstalled(pr, q) ==
    \A rc \in DOMAIN pr.p : pr.owners[rc] > 0 => pr.p[rc] = q

\* C17: set_params(p) installs p in the equations and in every operator and
\* returns Ok when nothing is shared; when the equations or an operator
\* inside them is shared it returns the error FailedToGetMutableReference
\* and changes no parameters
C17_SetParamsAllOrNothing ==
    [][log'.op = "set_params"
           => IF UniquelyOwned(problem)
              THEN ret' = "Ok" /\ ParamsInstalled(problem', log'.arg)
              ELSE ret' = "FailedToGetMutableReference" /\ problem' = problem]_vars

\* every entry of a tolerance vector, an optional tolerance scalar, every
\* entry of an optional tolerance vector is strictly positive
PositiveVector(v) == \A i \in 1 .. Len(v) : v[i] > 0
PositiveOption(x) == x = NoTolerance \/ x[1] > 0
PositiveVectorOption(v) == v = NoTolerance \/ PositiveVector(v[1])

\* C18: every problem OdeSolverProblem::new returns has atol.len() equal to
\* the number of states and strictly positive rtol, atol entries and
\* optional tolerances
C18_NewProblemIsValid ==
    (log.op = "new_problem" /\ ret = "Ok")
        => /\ Len(problem.atol) = problem.nstates
           /\ problem.rtol > 0
           /\ PositiveVector(problem.atol)
           /\ PositiveOption(problem.sens_rtol) /\ PositiveVectorOption(problem.sens_atol)
           /\ PositiveOption(problem.out_rtol) /\ PositiveVectorOption(problem.out_atol)
           /\ PositiveOption(problem.param_rtol) /\ PositiveVectorOption(problem.param_atol)

\* C19: gemv(alpha, x, beta, y) leaves y = alpha * (M * x) + beta * y_old
C19_GemvIsAlphaMxPlusBetaY ==
    log.op = "gemv"
        => log.out = [i \in 1 .. PatternDim |->
                         log.arg.alpha * MatVec(log.arg.m, log.arg.x)[i]
                             + log.arg.beta * log.arg.y[i]]

\* C20: a.union(b) returns Ok with a valid pattern (major_dim + 1 column
\* offsets, row indices in range) whose entries are exactly those of a and
\* those of b
C20_UnionIsTheSetUnion ==
    log.op = "union"
        => /\ ret = "Ok"
           /\ ValidPattern(log.out.pattern.major_dim, log.out.pattern.minor_dim,
                           log.out.pattern.major_offsets, log.out.pattern.minor_indices)
           /\ indices(log.out.pattern) = indices(log.arg.a) \cup indices(log.arg.b)

\* the unit vector e_j of n entries, j counted from 0
UnitVector(n, j) == [i \in 1 .. n |-> IF i = j + 1 THEN 1 ELSE 0]

\* C21: jacobian(x) has at (i, j) component i of jacobian_action(x, e_j)
\* for every i and j, and stores exactly the entries that are not zero
C21_JacobianIsColumnProbes ==
    log.op = "jacobian"
        => \A i, j \in 0 .. (log.arg.n - 1) :
             /\ TripletEntry(log.out.triplets, i, j)
                    = jacobian_action(log.arg.jac, UnitVector(log.arg.n, j))[i + 1]
             /\ <<i, j>> \in TripletStructure(log.out.triplets)
                    <=> jacobian_action(log.arg.jac, UnitVector(log.arg.n, j))[i + 1] # 0

\* a Jacobian of two columns was probed: the first column has an entry and
\* the second column has a structural zero
C21_Witness ==
    /\ log.op = "jacobian"
    /\ log.arg.n = 2
    /\ log.arg.jac[1][1] # 0
    /\ log.arg.jac[1][2] = 0
    /\ log.arg.jac[2][2] # 0
    /\ log.out.v = zeros(2)

\* rate / (1 - rate) * eta for rate = eta / eta_prev
DahlquistEstimate(eta, eta_prev) ==
    RMul(RDiv(RDiv(eta, eta_prev), RSub(One, RDiv(eta, eta_prev))), eta)

\* C22: check_new_iteration returns Converged whenever eta <= EPSILON and,
\* on a call after the first since reset(), whenever the estimate
\* rate / (1 - rate) * eta is below tol for rate = eta / eta_prev; the
\* first call returns Converged only for eta <= EPSILON and never Diverged
C22_ConvergedWheneverEstimateBelowTol ==
    log.op = "check_new_iteration"
        => /\ log.arg.norm = Zero => log.out = "Converged"
           /\ (/\ log.arg.c.calls > 0
               /\ log.arg.c.last[1].norm # Zero
               /\ RLt(DahlquistEstimate(log.arg.norm, log.arg.c.last[1].norm),
                      log.arg.c.tol))
                  => log.out = "Converged"
           /\ log.arg.c.calls = 0
                  => /\ log.out = "Converged" => log.arg.norm = Zero
                     /\ log.out # "Diverged"

\* C22 (amended): check_new_iteration returns Converged whenever
\* eta <= EPSILON and, when the call before it since reset() returned
\* Continue or MaximumIterations for a norm eta_prev, whenever
\* rate = eta / eta_prev <= 1 and rate / (1 - rate) * eta < tol; the first
\* call returns Converged only for eta <= EPSILON and never Diverged
C22_ConvergedWheneverRateAndEstimateAllow ==
    log.op = "check_new_iteration"
        => /\ log.arg.norm = Zero => log.out = "Converged"
           /\ (/\ log.arg.c.calls > 0
               /\ log.arg.c.last[1].status \in {"Continue", "MaximumIterations"}
               /\ RLe(log.arg.norm, log.arg.c.last[1].norm)
               /\ RLt(DahlquistEstimate(log.arg.norm, log.arg.c.last[1].norm),
                      log.arg.c.tol))
                  => log.out = "Converged"
           /\ log.arg.c.calls = 0
                  => /\ log.out = "Converged" => log.arg.norm = Zero
                     /\ log.out # "Diverged"

\* a second call converged by the estimate with a norm above EPSILON
C22_Witness ==
    /\ log.op = "check_new_iteration"
    /\ log.arg.c.calls = 1
    /\ log.arg.c.last[1].status = "Continue"
    /\ log.arg.norm # Zero
    /\ RLt(log.arg.norm, log.arg.c.last[1].norm)
    /\ log.out = "Converged"

\* C23: for a caller that stops at the first status other than Continue,
\* a call of check_new_iteration is at most the max_iter-th since reset(),
\* leaves iter <= max_iter, does not underflow max_iter - iter, and returns
\* MaximumIterations when it brings iter to max_iter
C23_StoppingCallerMakesAtMostMaxIterCalls ==
    (log.op = "check_new_iteration" /\ log.arg.c.open)
        => /\ convergence.calls <= convergence.max_iter
           /\ convergence.iter <= convergence.max_iter
           /\ log.out # "panic"
           /\ (convergence.iter = convergence.max_iter /\ log.arg.c.iter < convergence.iter)
                  => log.out = "MaximumIterations"

\* the second call of a caller that saw Continue before brought iter to
\* max_iter and returned MaximumIterations
C23_Witness ==
    /\ log.op = "check_new_iteration"
    /\ log.arg.c.open
    /\ log.arg.c.calls = 1
    /\ convergence.iter = convergence.max_iter
    /\ log.out = "MaximumIterations"

\* C24: a step-size change at order k (here the one set_stop_time makes)
\* leaves the columns k+1 .. MAX_ORDER+2 of the difference matrix unchanged
C24_ColumnsAboveOrderUnchanged ==
    [][(log'.op = "set_stop_time" /\ ret' = "Ok" /\ bdf'.h # bdf.h)
           => \A c \in Cols : c > bdf.order => bdf'.diff[c] = bdf.diff[c]]_vars

C26_UMatchesOrderAtStepSizeChange ==
    [][(log'.op = "set_stop_time" /\ (bdf'.h # bdf.h \/ ret' = "panic"))
           => bdf.u = _compute_r(bdf.order, One)]_vars

\* C27: predict_error_control(order) divides the sum of the channels'
\* weighted squared norms by the number of channels it summed: state,
\* output, every sensitivity and every sensitivity output in error control
C27_PredictedErrorNormIsMeanOverChannels ==
    log.op = "predict_error_control"
        => log.error_norm
               = RDiv(WeightedSum(AllChannels(log.arg.ch), error_const2(log.arg.order)),
                      FromInt(Len(AllChannels(log.arg.ch))))

\* C28: try_from_indices(nrows, ncols, S) returns Ok with a valid pattern
\* of ncols + 1 column offsets whose indices() is S and whose get_index
\* maps those pairs onto the positions 0 .. nnz - 1
C28_TryFromIndicesBuildsThePattern ==
    log.op = "try_from_indices"
        => /\ ret = "Ok"
           /\ ValidPattern(log.arg.ncols, log.arg.nrows,
                           log.out.pattern.major_offsets, log.out.pattern.minor_indices)
           /\ indices(log.out.pattern) = Range(log.arg.indices)
           /\ {get_index(log.out.pattern, p[1], p[2]) : p \in indices(log.out.pattern)}
                  = 0 .. (Len(log.arg.indices) - 1)

\* the points q are sorted by t in the direction of the solution, points
\* of equal t in the order they were pushed
SortedPoints(q, negative_time) ==
    \A k \in 1 .. (Len(q) - 1) :
        /\ IF negative_time THEN q[k].t >= q[k + 1].t ELSE q[k].t <= q[k + 1].t
        /\ q[k].t = q[k + 1].t => q[k].state < q[k + 1].state

\* C29: after any pushes solution_points is sorted by t (non-increasing
\* for negative_time), equal times in insertion order; after push_sens
\* calls only, every sens_solution_points[i] has the length and the times
\* of solution_points
C29_SolutionPointsSortedAndAligned ==
    /\ SortedPoints(solution.solution_points, solution.negative_time)
    /\ (solution.pushes = 0 /\ solution.sens_solution_points # <<>>)
           => \A i \in 1 .. NumSens :
                /\ Len(solution.sens_solution_points[1][i]) = Len(solution.solution_points)
                /\ \A k \in 1 .. Len(solution.solution_points) :
                     solution.sens_solution_points[1][i][k].t = solution.solution_points[k].t

\* three points were pushed with push_sens, out of time order and two of
\* them at the same time
C29_Witness ==
    /\ solution.pushes = 0
    /\ Len(solution.solution_points) = 3
    /\ solution.solution_points[1].state = 3
    /\ solution.solution_points[2].t = solution.solution_points[3].t
    /\ solution.sens_solution_points # <<>>

\* C30: assert_eq(other, tol) panics whenever the lengths differ or some
\* element differs by more than tol, and returns normally only when the
\* lengths are equal and every element is within tol
C30_AssertEqPanicsOnMismatch ==
    log.op = "assert_eq"
        => (ret = "panic"
               <=> \/ Len(log.arg.a) # Len(log.arg.b)
                   \/ \E k \in 1 .. Len(log.arg.a) :
                          IAbs(log.arg.a[k] - log.arg.b[k]) > log.arg.tol)

====
